---- MODULE Spec2Model ----
(***************************************************************************)
(* Verification model of parts of the pycpp toolkit.                       *)
(*                                                                         *)
(* Every subsystem has its own variables and its own specification; the   *)
(* variables of the other subsystems stay at their initial value.         *)
(*   SpecLRU      lru_cache (cache/lru.h), every operation                *)
(*   SpecLRUOps   lru_cache, element access, lookup and modifiers only    *)
(*   SpecArena    stack_allocator_arena used from one thread              *)
(*   SpecArenaMT  stack_allocator on one arena from two threads           *)
(*   SpecStream   random_access_fstream and mmap_fstream                   *)
(*   SpecFilter   filter_impl of the compression codecs                    *)
(*   SpecFs       file manipulation on a POSIX file system                 *)
(***************************************************************************)
EXTENDS Integers, Sequences, FiniteSets, TLC

\* ------------------------------------------------------------------------
\* Bounds
\* ------------------------------------------------------------------------
\* largest cache_size given to the lru_cache constructor
MaxCap == 2
\* number of distinct keys
NKeys == 4
\* longest recency list (copy assignment appends without clearing)
MaxList == 4
\* most keys inserted into the other cache of a swap, copy or move
MaxRhs == 2

\* bits of size_t and of a pointer
WordBits == 6
\* log2 of the arena's Alignment
AlignBits == 2
\* the arena's StackSize
StackSize == 10
\* blocks the caller of the arena holds at a time
MaxBlocks == 3
\* addresses the fallback allocator can serve
HeapSlots == 2
\* blocks the two threads hold at a time
MaxHeld == 2

\* descriptors the operating system hands out to the stream wrappers
MaxFds == 3
\* mappings the operating system hands out to the stream wrappers
MaxMaps == 2

\* bytes of the source buffer given to the compression filter
SrcLen == 2
\* bytes of the destination buffer given to the compression filter
DstLen == 2

\* paths of the file system
NPaths == 3
\* largest content of a file, most files of a directory
NData == 2

\* bits of the unsigned type the counting functions compute in
UIntBits == 5

\* most elements of an enumerated range
MaxN == 5
\* latest call at which the enumerated function returns true
MaxStop == 3

\* most bytes of a hashed message
MaxMsg == 130
\* the hashed messages differ in their first byte, at most MaxSeed
MaxSeed == 1

\* bits of the uint32_t of the Punycode codec
UInt32Bits == 12
\* most code points of an encoded string
MaxCps == 3

\* most characters of a searched string
MaxStr == 3
\* most characters of the substring searched for
MaxSub == 2
\* distinct characters
NChars == 2

\* the longest string given to split, join and the quoted split
MaxLine == 5

\* the deepest nesting of JSON containers and the most values in one
MaxDepth == 2
MaxKids == 2

\* the most turns of the loop of the one-shot decompression
MaxTurns == 3

\* the longest path given to makedirs, and the calls the stack has room for
MaxPath == 5
MaxFrames == 8

\* the most samples, the largest value and the largest weight of the variance
MaxSamples == 3
MaxValue == 2
MaxWeight == 2

VARIABLES list_, map_, cache_size_, lru_ub, lru_log
VARIABLES ptr_, blocks, retired, arena_log, use_fallback, ndebug, aborted
VARIABLES use_locks, mutex_, t_pc, t_n, t_p, t_r
VARIABLES s_kind, s_fd, s_data, s_alive, os_fds, os_maps
VARIABLES stream, status, src, dst, code, codec
VARIABLES fs, fs_call
VARIABLES c_d1, c_d2, c_ret
VARIABLES e_a, e_mid, e_stop, e_out
VARIABLES sha_seed, ctx, digest
VARIABLES p_src, p_bits, p_enc, p_dec
VARIABLES f_str, f_sub, f_start, f_end, f_ret
VARIABLES s_str, s_arg, s_ret
VARIABLES j_heap, levels, has_key_, key_, j_open, j_phase, j_event, j_ub, j_thrown
VARIABLES x_call, x_ret
VARIABLES m_fs, m_stack, m_ret
VARIABLES v_mean, v_values, v_weights, v_ret

lruVars == <<list_, map_, cache_size_, lru_ub, lru_log>>
arenaVars == <<ptr_, blocks, retired, arena_log, use_fallback, ndebug, aborted>>
threadVars == <<use_locks, mutex_, t_pc, t_n, t_p, t_r>>
streamVars == <<s_kind, s_fd, s_data, s_alive, os_fds, os_maps>>
filterVars == <<stream, status, src, dst, code, codec>>
fsVars == <<fs, fs_call>>
countVars == <<c_d1, c_d2, c_ret>>
enumVars == <<e_a, e_mid, e_stop, e_out>>
shaVars == <<sha_seed, ctx, digest>>
punyVars == <<p_src, p_bits, p_enc, p_dec>>
findVars == <<f_str, f_sub, f_start, f_end, f_ret>>
splitVars == <<s_str, s_arg, s_ret>>
jsonVars == <<j_heap, levels, has_key_, key_, j_open, j_phase, j_event, j_ub, j_thrown>>
scratchVars == <<x_call, x_ret>>
makedirsVars == <<m_fs, m_stack, m_ret>>
varianceVars == <<v_mean, v_values, v_weights, v_ret>>
vars == <<lruVars, arenaVars, threadVars, streamVars, filterVars, fsVars, countVars, enumVars, shaVars, punyVars, findVars, splitVars, jsonVars, scratchVars, makedirsVars, varianceVars>>

\* ------------------------------------------------------------------------
\* lru_cache: one cache object; the other object of a swap, copy or move
\* is an input, built by inserts into a new cache
\* ------------------------------------------------------------------------
Keys == 1..NKeys
\* map_ value of a key that has no entry
NoEntry == -1
\* the past-the-end iterator list_.end()
EndIt == 0

RemoveAt(s, i) ==
    [j \in 1..(Len(s) - 1) |-> IF j < i THEN s[j] ELSE s[j + 1]]

\* position of the node an iterator refers to, 0 when it is in no list
PosOf(l, id) ==
    IF \E i \in 1..Len(l) : l[i].id = id
    THEN CHOOSE i \in 1..Len(l) : l[i].id = id
    ELSE 0

\* map_.size()
size(m) == Cardinality({k \in Keys : m[k] # NoEntry})

\* a node the allocator has not handed out
FreshId(l) == Len(l) + 1

\* node identities are not observable: name every node by its position
Renumber(st) ==
    [l |-> [i \in 1..Len(st.l) |-> [id |-> i, key |-> st.l[i].key]],
     m |-> [k \in Keys |-> IF st.m[k] \in {NoEntry, EndIt} THEN st.m[k]
                           ELSE PosOf(st.l, st.m[k])]]

\* pop(it): map_.erase(it->first); list_.erase(it)
pop(st, i) ==
    [l |-> RemoveAt(st.l, i), m |-> [st.m EXCEPT ![st.l[i].key] = NoEntry]]

RECURSIVE clean(_, _)
\* clean(): while (map_.size() > cache_size()) pop(--list_.end())
clean(st, cap) ==
    IF size(st.m) > cap
    THEN clean(pop(st, Len(st.l)), cap)
    ELSE st

\* unordered_map::insert keeps an existing entry
MapInsert(m, k, it) ==
    IF m[k] = NoEntry THEN [m EXCEPT ![k] = it] ELSE m

\* put(key, value): push_front, map_.insert, clean
put(st, k, cap) ==
    LET id == FreshId(st.l)
    IN  clean([l |-> <<[id |-> id, key |-> k]>> \o st.l,
               m |-> MapInsert(st.m, k, id)], cap)

\* get that leaves the node where it is
get_NoSplice(st, id) == st

\* get(it): list_.splice(list_.begin(), list_, it)
get(st, id) ==
    LET i == PosOf(st.l, id)
    IN  [st EXCEPT !.l = <<st.l[i]>> \o RemoveAt(st.l, i)]

State == [l |-> list_, m |-> map_]
EmptyMap == [k \in Keys |-> NoEntry]
EmptyState == [l |-> <<>>, m |-> EmptyMap]

\* an iterator that may be dereferenced: it refers to a node of the list
Valid(it) == PosOf(list_, it) # 0

Install(st) ==
    /\ list_' = Renumber(st).l
    /\ map_' = Renumber(st).m

RECURSIVE Build(_, _, _)
\* the state of a new cache after insert(ks[1]), ..., insert(ks[Len(ks)])
Build(ks, cap, st) ==
    IF ks = <<>> THEN st
    ELSE Build(Tail(ks), cap,
               IF st.m[Head(ks)] = NoEntry THEN Renumber(put(st, Head(ks), cap)) ELSE st)

\* the other caches
Rhs ==
    {[cap |-> cap, st |-> Build(ks, cap, EmptyState)] :
        cap \in 0..MaxCap, ks \in UNION {[1..n -> Keys] : n \in 0..MaxRhs}}

\* ghost: the scenario "insert distinct keys, look one up, insert one more"
\* run on the cache since its construction; Off once anything else happened
LogOff == <<[op |-> "off", k |-> 0]>>
LogInserts(log) == SelectSeq(log, LAMBDA e : e.op = "insert")
LogKeys(log) == {log[i].k : i \in 1..Len(log)}
IsOff(log) == Len(log) > 0 /\ log[1].op = "off"
LogNext(log, cap, op, k) ==
    IF IsOff(log) THEN LogOff
    ELSE IF op = "insert" /\ k \notin LogKeys(log)
              /\ Len(log) = Len(LogInserts(log)) /\ Len(log) <= cap
         THEN Append(log, [op |-> "insert", k |-> k])
    ELSE IF op = "lookup" /\ Len(log) = cap + 1 /\ Len(log) >= 2
              /\ Len(log) = Len(LogInserts(log)) /\ k = log[2].k
         THEN Append(log, [op |-> "lookup", k |-> k])
    ELSE IF op = "insert" /\ Len(log) = cap + 2 /\ log[Len(log)].op = "lookup"
              /\ k \notin LogKeys(log)
         THEN Append(log, [op |-> "insert", k |-> k])
    ELSE LogOff

Log(op, k) == lru_log' = LogNext(lru_log, cache_size_, op, k)
LogBreak == lru_log' = LogOff

\* undefined behaviour (an end() iterator dereferenced or spliced): the
\* cache is left as it was or emptied, and nothing more is known
Undefined ==
    /\ lru_ub' = TRUE
    /\ \/ UNCHANGED <<list_, map_>>
       \/ Install(EmptyState)
    /\ UNCHANGED cache_size_

\* get through a map_ entry
Touch(k) ==
    IF Valid(map_[k])
    THEN /\ Install(get(State, map_[k]))
         /\ UNCHANGED <<cache_size_, lru_ub>>
    ELSE Undefined

\* put of a key that has no entry
Put(k) ==
    /\ Len(put(State, k, cache_size_).l) <= MaxList
    /\ Install(put(State, k, cache_size_))
    /\ UNCHANGED <<cache_size_, lru_ub>>

\* operator[](key)
Index(k) ==
    /\ ~lru_ub
    /\ IF map_[k] = NoEntry
       THEN IF cache_size_ = 0
            THEN \* *put(...) dereferences begin() of the emptied list
                 Undefined
            ELSE Put(k)
       ELSE Touch(k)
    /\ Log(IF map_[k] = NoEntry THEN "insert" ELSE "lookup", k)

\* at(key): throws when the key is absent
At(k) ==
    /\ ~lru_ub
    /\ IF map_[k] = NoEntry
       THEN UNCHANGED <<list_, map_, cache_size_, lru_ub>>
       ELSE Touch(k)
    /\ Log("lookup", k)

\* find(key): end() when the key is absent
Find(k) ==
    /\ ~lru_ub
    /\ IF map_[k] = NoEntry
       THEN UNCHANGED <<list_, map_, cache_size_, lru_ub>>
       ELSE Touch(k)
    /\ Log("lookup", k)

\* insert(key, value)
Insert(k) ==
    /\ ~lru_ub
    /\ IF map_[k] = NoEntry
       THEN Put(k)
       ELSE UNCHANGED <<list_, map_, cache_size_, lru_ub>>
    /\ Log("insert", k)

\* erase(key)
EraseKey(k) ==
    /\ ~lru_ub
    /\ IF map_[k] = NoEntry
       THEN UNCHANGED <<list_, map_, cache_size_, lru_ub>>
       ELSE IF Valid(map_[k])
            THEN /\ Install(pop(State, PosOf(list_, map_[k])))
                 /\ UNCHANGED <<cache_size_, lru_ub>>
            ELSE Undefined
    /\ LogBreak

RECURSIVE popRange(_, _, _)
popRange(st, i, n) ==
    IF n = 0 THEN st ELSE popRange(pop(st, i), i, n - 1)

\* erase(first, last) and erase(pos): the n nodes from position i on
EraseRange(i, n) ==
    /\ ~lru_ub
    /\ n >= 1
    /\ i + n - 1 <= Len(list_)
    /\ Install(popRange(State, i, n))
    /\ UNCHANGED <<cache_size_, lru_ub>>
    /\ LogBreak

\* clear()
Clear ==
    /\ ~lru_ub
    /\ Install(EmptyState)
    /\ UNCHANGED <<cache_size_, lru_ub>>
    /\ LogBreak

\* swap(rhs), also operator=(self&& rhs)
Swap(rhs) ==
    /\ ~lru_ub
    /\ Install(rhs.st)
    /\ cache_size_' = rhs.cap
    /\ UNCHANGED lru_ub
    /\ LogBreak

RECURSIVE IndexNodes(_, _, _)
\* map_.insert(make_pair(it->first, it)) for every node from position i on
IndexNodes(l, m, i) ==
    IF i > Len(l) THEN m
    ELSE IndexNodes(l, MapInsert(m, l[i].key, l[i].id), i + 1)

\* lru_cache(const self& rhs): the cache is a new object, a copy of rhs
CopyConstruct(rhs) ==
    /\ ~lru_ub
    /\ Install([l |-> rhs.st.l, m |-> IndexNodes(rhs.st.l, EmptyMap, 1)])
    /\ cache_size_' = rhs.cap
    /\ UNCHANGED lru_ub
    /\ LogBreak

RECURSIVE AssignNodes(_, _, _)
\* for (value: rhs.list_) { list_.emplace_back(value);
\*     map_.insert(make_pair(value.first, list_.rbegin().base())); }
\* rbegin().base() is end()
AssignNodes(st, rl, i) ==
    IF i > Len(rl) THEN st
    ELSE AssignNodes([l |-> Append(st.l, [id |-> FreshId(st.l), key |-> rl[i].key]),
                      m |-> MapInsert(st.m, rl[i].key, EndIt)], rl, i + 1)

\* operator=(const self& rhs): list_ and map_ are not cleared first
CopyAssign(rhs) ==
    /\ ~lru_ub
    /\ Len(list_) + Len(rhs.st.l) <= MaxList
    /\ Install(AssignNodes(State, rhs.st.l, 1))
    /\ cache_size_' = rhs.cap
    /\ UNCHANGED lru_ub
    /\ LogBreak

\* lru_cache(self&& rhs) { swap(rhs); }: the cache is a new object
MoveConstruct(rhs) ==
    /\ ~lru_ub
    /\ Install(rhs.st)
    /\ cache_size_' = rhs.cap
    /\ UNCHANGED lru_ub
    /\ LogBreak

\* the cache is the rhs of lru_cache(self&& rhs): the new object's
\* cache_size_ is not initialised before the swap, so the cache is left
\* empty with an indeterminate capacity
MovedFrom ==
    /\ ~lru_ub
    /\ Install(EmptyState)
    /\ cache_size_' \in 0..MaxCap
    /\ UNCHANGED lru_ub
    /\ LogBreak

\* ------------------------------------------------------------------------
\* stack_allocator_arena (allocator/stack.h), used from one thread
\* ------------------------------------------------------------------------
\* size_t and pointers are WordBits wide
Word == 2 ^ WordBits
SizeMax == Word - 1
\* the template parameter Alignment, a power of two
Alignment == 2 ^ AlignBits
\* address of buf_, alignas(Alignment)
buf_ == Alignment
\* addresses served by the fallback allocator, outside the arena object
HeapAddrs == {Word \div 2 + (i - 1) * Alignment : i \in 1..HeapSlots}
\* the sizes asked for: nothing, less than a unit, units, more than the
\* buffer, and a size whose rounding up wraps
Sizes == {0, 1, Alignment, Alignment + 1, StackSize + 1, SizeMax}

\* align_up(n): (n + (alignment-1)) & ~(alignment-1)
align_up(n) ==
    LET m == (n + (Alignment - 1)) % Word
    IN  m - (m % Alignment)

\* pointer_in_buffer(p)
pointer_in_buffer(p) == (buf_ <= p) /\ (p <= buf_ + StackSize)

\* the test of allocate made with n in the place of aligned_n
fits_Unaligned(ptr, n) == ((buf_ + StackSize - ptr) % Word) >= n

\* the test of allocate: static_cast<size_t>(buf_ + stack_size - ptr_()) >= aligned_n
fits(ptr, n) == ((buf_ + StackSize - ptr) % Word) >= align_up(n)

\* ptr_() += aligned_n
bump(ptr, n) == (ptr + align_up(n)) % Word

\* deallocate that compares p + n, not rounded up, with ptr_
rewind_Unaligned(ptr, p, n) ==
    IF pointer_in_buffer(p)
    THEN IF (p + n) % Word = ptr THEN p ELSE ptr
    ELSE ptr

\* deallocate that takes every block of the buffer for the last one
rewind_Always(ptr, p, n) ==
    IF pointer_in_buffer(p) THEN p ELSE ptr

\* the bump pointer after deallocate(p, n)
rewind(ptr, p, n) ==
    IF pointer_in_buffer(p)
    THEN IF (p + align_up(n)) % Word = ptr THEN p ELSE ptr
    ELSE ptr

\* used()
used == ptr_ - buf_

\* the bytes of a block of the buffer, by the size it takes from the buffer
Bytes(p, n) == {a \in buf_..(buf_ + StackSize - 1) : p <= a /\ a < p + align_up(n)}
InArena(b) == pointer_in_buffer(b.p)

\* ghost: block i is not the most recently allocated of the live blocks
\* served from the buffer
NotTop(i) == \E j \in (i + 1)..Len(blocks) : InArena(blocks[j])
\* ghost: the same, counting only the blocks that take space in the buffer
NotTopNZ(i) ==
    \E j \in (i + 1)..Len(blocks) : InArena(blocks[j]) /\ align_up(blocks[j].n) > 0

\* ghost: the scenario "allocate a, allocate b, free b, allocate c" run on
\* the empty arena; Off once anything else happened
ArenaOff == <<[op |-> "off", n |-> 0, p |-> 0]>>
ArenaLogNext(log, op, n, p) ==
    IF op = "allocate" /\ Len(log) < 2 /\ log # ArenaOff
    THEN Append(log, [op |-> op, n |-> n, p |-> p])
    ELSE IF op = "deallocate" /\ Len(log) = 2 /\ p = log[2].p /\ n = log[2].n
    THEN Append(log, [op |-> op, n |-> n, p |-> p])
    ELSE IF op = "allocate" /\ Len(log) = 3 /\ n = log[2].n
    THEN Append(log, [op |-> op, n |-> n, p |-> p])
    ELSE ArenaOff

\* ghost: the bytes of the blocks freed ahead of their turn since the last
\* reset (all: by NotTop, nz: by NotTopNZ), and whether the buffer has
\* served a block since one of the latter was freed
NoneRetired == [all |-> {}, nz |-> {}, later |-> FALSE]
Later(r) == [r EXCEPT !.later = (r.nz # {})]
Retire(r, i) ==
    LET b == blocks[i]
    IN  IF InArena(b)
        THEN [all |-> IF NotTop(i) THEN r.all \cup Bytes(b.p, b.n) ELSE r.all,
              nz |-> IF NotTopNZ(i) THEN r.nz \cup Bytes(b.p, b.n) ELSE r.nz,
              later |-> r.later]
        ELSE r

\* allocate<RequiredAlignment>(n)
Allocate(n) ==
    /\ ~aborted
    /\ Len(blocks) < MaxBlocks
    /\ IF ~ndebug /\ ~pointer_in_buffer(ptr_)
       THEN \* assert(pointer_in_buffer(ptr_()))
            /\ aborted' = TRUE
            /\ UNCHANGED <<ptr_, blocks, retired, arena_log>>
       ELSE IF fits(ptr_, n)
       THEN /\ ptr_' = bump(ptr_, n)
            /\ blocks' = Append(blocks, [p |-> ptr_, n |-> n])
            /\ retired' = Later(retired)
            /\ arena_log' = ArenaLogNext(arena_log, "allocate", n, ptr_)
            /\ UNCHANGED aborted
       ELSE IF ~ndebug /\ ~use_fallback
       THEN \* assert(use_fallback)
            /\ aborted' = TRUE
            /\ UNCHANGED <<ptr_, blocks, retired, arena_log>>
       ELSE \* fallback_().allocate(n)
            /\ \E h \in HeapAddrs :
                  /\ \A i \in 1..Len(blocks) : blocks[i].p # h
                  /\ blocks' = Append(blocks, [p |-> h, n |-> n])
                  /\ arena_log' = ArenaLogNext(arena_log, "allocate", n, h)
            /\ UNCHANGED <<ptr_, retired, aborted>>
    /\ UNCHANGED <<use_fallback, ndebug>>

\* deallocate(p, n) of the i-th block the caller holds
Deallocate(i) ==
    /\ ~aborted
    /\ i \in 1..Len(blocks)
    /\ LET b == blocks[i]
       IN  IF ~ndebug /\ ~pointer_in_buffer(ptr_)
           THEN /\ aborted' = TRUE
                /\ UNCHANGED <<ptr_, blocks, retired, arena_log>>
           ELSE IF ~pointer_in_buffer(b.p) /\ ~ndebug /\ ~use_fallback
           THEN /\ aborted' = TRUE
                /\ UNCHANGED <<ptr_, blocks, retired, arena_log>>
           ELSE /\ ptr_' = rewind(ptr_, b.p, b.n)
                /\ blocks' = RemoveAt(blocks, i)
                /\ retired' = Retire(retired, i)
                /\ arena_log' = ArenaLogNext(arena_log, "deallocate", b.n, b.p)
                /\ UNCHANGED aborted
    /\ UNCHANGED <<use_fallback, ndebug>>

\* reset(): the blocks of the buffer must not be used any more
Reset ==
    /\ ~aborted
    /\ ptr_' = buf_
    /\ blocks' = SelectSeq(blocks, LAMBDA b : ~InArena(b))
    /\ retired' = NoneRetired
    /\ arena_log' = <<>>
    /\ UNCHANGED <<use_fallback, ndebug, aborted>>

\* ------------------------------------------------------------------------
\* stack_allocator<T, S, A, UF, F, UL> on one arena, from two threads
\* ------------------------------------------------------------------------
Threads == {1, 2}
\* the sizes the threads ask for
ThreadSizes == {1, StackSize + 1}

\* stack_allocator::arena_type is stack_allocator_arena<stack_size, alignment>:
\* UseFallback, Fallback and UseLocks of the allocator are not passed on,
\* the arena has the defaults of its declaration
arena_type(uf, ul) == [use_fallback |-> TRUE, use_locks |-> FALSE]

\* stack_allocator_arena::mutex_type: conditional_t<UseLocks, mutex, dummy_mutex>
mutex_type(arena) == IF arena.use_locks THEN "mutex" ELSE "dummy_mutex"

\* the mutex of the arena the allocators refer to
ArenaMutex == mutex_type(arena_type(use_fallback, use_locks))

\* lock_guard<mutex_type> lock(mutex_()): lock() of dummy_mutex does nothing
Lock(t) ==
    IF ArenaMutex = "mutex"
    THEN mutex_ = 0 /\ mutex_' = t
    ELSE UNCHANGED mutex_

\* the end of the lock_guard's scope
Unlock(t) ==
    mutex_' = IF mutex_ = t THEN 0 ELSE mutex_

Goto(t, pc) == t_pc' = [t_pc EXCEPT ![t] = pc]

\* the call returns, its locals are gone
Return(t) ==
    /\ Goto(t, "idle")
    /\ t_n' = [t_n EXCEPT ![t] = 0]
    /\ t_p' = [t_p EXCEPT ![t] = 0]
    /\ t_r' = [t_r EXCEPT ![t] = 0]

\* stack_allocator::allocate(n) enters stack_allocator_arena::allocate
T_Allocate(t, n) ==
    /\ ~aborted
    /\ t_pc[t] = "idle"
    /\ Len(blocks) < MaxHeld
    /\ t_n' = [t_n EXCEPT ![t] = n]
    /\ Goto(t, "a_assert")
    /\ UNCHANGED <<ptr_, blocks, aborted, mutex_, t_p, t_r>>

\* assert(pointer_in_buffer(ptr_())), before the lock is taken; without
\* assertions the call would serve memory that is not the buffer's, and
\* nothing more is modelled
T_AllocAssert(t) ==
    /\ ~aborted
    /\ t_pc[t] = "a_assert"
    /\ IF ~pointer_in_buffer(ptr_)
       THEN aborted' = TRUE /\ UNCHANGED t_pc
       ELSE Goto(t, "a_lock") /\ UNCHANGED aborted
    /\ UNCHANGED <<ptr_, blocks, mutex_, t_n, t_p, t_r>>

T_AllocLock(t) ==
    /\ ~aborted
    /\ t_pc[t] = "a_lock"
    /\ Lock(t)
    /\ Goto(t, "a_test")
    /\ UNCHANGED <<ptr_, blocks, aborted, t_n, t_p, t_r>>

\* if (static_cast<size_t>(buf_ + stack_size - ptr_()) >= aligned_n)
T_AllocTest(t) ==
    /\ ~aborted
    /\ t_pc[t] = "a_test"
    /\ Goto(t, IF fits(ptr_, t_n[t]) THEN "a_read" ELSE "a_fallback")
    /\ UNCHANGED <<ptr_, blocks, aborted, mutex_, t_n, t_p, t_r>>

\* byte* r = ptr_()
T_AllocRead(t) ==
    /\ ~aborted
    /\ t_pc[t] = "a_read"
    /\ t_r' = [t_r EXCEPT ![t] = ptr_]
    /\ Goto(t, "a_bump")
    /\ UNCHANGED <<ptr_, blocks, aborted, mutex_, t_n, t_p>>

\* ptr_() += aligned_n
T_AllocBump(t) ==
    /\ ~aborted
    /\ t_pc[t] = "a_bump"
    /\ ptr_' = bump(ptr_, t_n[t])
    /\ Goto(t, "a_return")
    /\ UNCHANGED <<blocks, aborted, mutex_, t_n, t_p, t_r>>

\* return r
T_AllocReturn(t) ==
    /\ ~aborted
    /\ t_pc[t] = "a_return"
    /\ blocks' = Append(blocks, [p |-> t_r[t], n |-> t_n[t]])
    /\ Unlock(t)
    /\ Return(t)
    /\ UNCHANGED <<ptr_, aborted>>

\* return fallback_().allocate(n)
T_AllocFallback(t) ==
    /\ ~aborted
    /\ t_pc[t] = "a_fallback"
    /\ \E h \in HeapAddrs :
          /\ \A i \in 1..Len(blocks) : blocks[i].p # h
          /\ blocks' = Append(blocks, [p |-> h, n |-> t_n[t]])
    /\ Unlock(t)
    /\ Return(t)
    /\ UNCHANGED <<ptr_, aborted>>

\* stack_allocator::deallocate(p, n) of the i-th block held enters
\* stack_allocator_arena::deallocate; its assert comes before the lock
T_Deallocate(t, i) ==
    /\ ~aborted
    /\ t_pc[t] = "idle"
    /\ i \in 1..Len(blocks)
    /\ IF ~pointer_in_buffer(ptr_)
       THEN /\ aborted' = TRUE
            /\ UNCHANGED <<blocks, t_pc, t_n, t_p>>
       ELSE /\ t_p' = [t_p EXCEPT ![t] = blocks[i].p]
            /\ t_n' = [t_n EXCEPT ![t] = blocks[i].n]
            /\ blocks' = RemoveAt(blocks, i)
            /\ Goto(t, "d_lock")
            /\ UNCHANGED aborted
    /\ UNCHANGED <<ptr_, mutex_, t_r>>

T_FreeLock(t) ==
    /\ ~aborted
    /\ t_pc[t] = "d_lock"
    /\ Lock(t)
    /\ Goto(t, "d_test")
    /\ UNCHANGED <<ptr_, blocks, aborted, t_n, t_p, t_r>>

\* if (pointer_in_buffer(p)) { n = align_up(n); if (p + n == ptr_()) ...
T_FreeTest(t) ==
    /\ ~aborted
    /\ t_pc[t] = "d_test"
    /\ Goto(t, IF rewind(ptr_, t_p[t], t_n[t]) # ptr_ THEN "d_write" ELSE "d_return")
    /\ UNCHANGED <<ptr_, blocks, aborted, mutex_, t_n, t_p, t_r>>

\* ptr_() = p
T_FreeWrite(t) ==
    /\ ~aborted
    /\ t_pc[t] = "d_write"
    /\ ptr_' = t_p[t]
    /\ Goto(t, "d_return")
    /\ UNCHANGED <<blocks, aborted, mutex_, t_n, t_p, t_r>>

\* return, or fallback_().deallocate(p, n)
T_FreeReturn(t) ==
    /\ ~aborted
    /\ t_pc[t] = "d_return"
    /\ Unlock(t)
    /\ Return(t)
    /\ UNCHANGED <<ptr_, blocks, aborted>>

\* ------------------------------------------------------------------------
\* random_access_fstream and mmap_fstream (stream/random_access.cc,
\* stream/mmap.cc): two wrappers of one class, and the descriptors and
\* mappings the operating system has handed out
\* ------------------------------------------------------------------------
Wrappers == {1, 2}
StreamKinds == {"random_access", "mmap"}
\* filesystem: the descriptor of a wrapper that holds none
INVALID_FD_VALUE == -1
\* data_ of a wrapper that holds no mapping
nullptr == 0

\* a wrapper's buffer.fd() and data_, with the release counts of every
\* descriptor (fds) and mapping (maps) handed out so far
Wrapper(o) ==
    [fd |-> s_fd[o], data |-> s_data[o], fds |-> os_fds, maps |-> os_maps]

\* mmap_fstream::unmap
unmap(w) ==
    IF w.data # nullptr
    THEN [w EXCEPT !.maps[w.data] = @ + 1, !.data = nullptr]
    ELSE w

\* random_access_fstream::close; buffer.close() flushes the stream buffer
\* and leaves the descriptor to fd_close
close_fd(w) ==
    IF w.fd # INVALID_FD_VALUE
    THEN [w EXCEPT !.fds[w.fd] = @ + 1, !.fd = INVALID_FD_VALUE]
    ELSE w

\* mmap_fstream::close: unmap(), then as random_access_fstream::close
close(w) == IF s_kind = "mmap" THEN close_fd(unmap(w)) ELSE close_fd(w)

\* fd_open: a new descriptor, or INVALID_FD_VALUE
fd_open(w, ok) ==
    IF ok
    THEN [w EXCEPT !.fds = Append(@, 0), !.fd = Len(w.fds) + 1]
    ELSE [w EXCEPT !.fd = INVALID_FD_VALUE]

\* open: mmap_fstream::open calls close() first,
\* random_access_fstream::open stores the new descriptor over the old one
open(w, ok) == IF s_kind = "mmap" THEN fd_open(close(w), ok) ELSE fd_open(w, ok)

\* mmap_fstream::map(o, l): unmap(), then file_length (which throws on a
\* descriptor that is not open), then open_memory_view
map(w, ok) ==
    IF unmap(w).fd = INVALID_FD_VALUE \/ ~ok
    THEN unmap(w)
    ELSE [unmap(w) EXCEPT !.maps = Append(@, 0), !.data = Len(w.maps) + 1]

\* store the wrapper o and the operating system's state
Store(o, w) ==
    /\ s_fd' = [s_fd EXCEPT ![o] = w.fd]
    /\ s_data' = [s_data EXCEPT ![o] = w.data]
    /\ os_fds' = w.fds
    /\ os_maps' = w.maps
    /\ UNCHANGED s_kind

S_Open(o, ok) ==
    /\ s_alive[o]
    /\ Len(os_fds) < MaxFds
    /\ Store(o, open(Wrapper(o), ok))
    /\ UNCHANGED s_alive

S_Close(o) ==
    /\ s_alive[o]
    /\ Store(o, close(Wrapper(o)))
    /\ UNCHANGED s_alive

S_Map(o, ok) ==
    /\ s_alive[o]
    /\ s_kind = "mmap"
    /\ Len(os_maps) < MaxMaps
    /\ Store(o, map(Wrapper(o), ok))
    /\ UNCHANGED s_alive

S_Unmap(o) ==
    /\ s_alive[o]
    /\ s_kind = "mmap"
    /\ Store(o, unmap(Wrapper(o)))
    /\ UNCHANGED s_alive

\* swap(rhs), which the move constructor and move assignment are made of
S_Swap ==
    /\ \A o \in Wrappers : s_alive[o]
    /\ s_fd' = [o \in Wrappers |-> s_fd[3 - o]]
    /\ s_data' = [o \in Wrappers |-> s_data[3 - o]]
    /\ UNCHANGED <<s_kind, s_alive, os_fds, os_maps>>

\* the destructor: close()
S_Destroy(o) ==
    /\ s_alive[o]
    /\ Store(o, close(Wrapper(o)))
    /\ s_alive' = [s_alive EXCEPT ![o] = FALSE]

\* ------------------------------------------------------------------------
\* filter_impl<Stream> (compression/core.h): the caller's source buffer is
\* the addresses SrcPtrs, the destination buffer is the addresses DstPtrs
\* ------------------------------------------------------------------------
SrcPtrs == 1..(1 + SrcLen)
DstPtrs == (2 + SrcLen)..(2 + SrcLen + DstLen)
\* the codec's status values: stream_end is the value the caller passes
CodecStatus == {"ok", "stream_end"}

\* filter_impl::before(dst, dstlen)
before_dst_KeepInput(st, d, dl) == [st EXCEPT !.next_out = d, !.avail_out = dl]

before_dst(st, d, dl) ==
    [next_in |-> nullptr, avail_in |-> 0, next_out |-> d, avail_out |-> dl]

\* filter_impl::before(src, srclen, dst, dstlen)
before(st, s, sl, d, dl) ==
    [next_in |-> s, avail_in |-> sl, next_out |-> d, avail_out |-> dl]

\* call(): the codec's step consumes c bytes of input, produces p bytes
\* of output
call(st, c, p) ==
    [next_in |-> IF c = 0 THEN st.next_in ELSE st.next_in + c,
     avail_in |-> st.avail_in - c,
     next_out |-> IF p = 0 THEN st.next_out ELSE st.next_out + p,
     avail_out |-> st.avail_out - p]

\* filter_impl::check_status
check_status(st, status_, s, d) ==
    IF status_ = "stream_end" THEN "compression_eof"
    ELSE IF st.next_out = d THEN "compression_need_input"
    ELSE IF st.next_in = s THEN "compression_need_output"
    ELSE "compression_ok"

\* operator(): the early returns
Early(sl, d, dl) ==
    IF status = "stream_end" THEN "compression_eof"
    ELSE IF sl = 0 /\ stream.avail_in = 0 THEN "compression_need_input"
    ELSE IF d = nullptr \/ dl = 0 THEN "compression_need_output"
    ELSE "none"

use_src == stream.next_in = nullptr \/ stream.avail_in = 0

\* the stream handed to call()
Prepared(s, sl, d, dl) ==
    IF use_src THEN before(stream, s, sl, d, dl) ELSE before_dst(stream, d, dl)

\* filter_impl::operator()(src, srclen, dst, dstlen, stream_end), the codec
\* consuming c bytes, producing p bytes and leaving the status ns
Filter(s, sl, d, dl, c, p, ns) ==
    LET early == Early(sl, d, dl)
        b == Prepared(s, sl, d, dl)
        a == call(b, c, p)
    IN  IF early # "none"
        THEN /\ c = 0 /\ p = 0 /\ ns = status
             /\ code' = early
             /\ src' = s
             /\ dst' = d
             /\ codec' = [src |-> s, dst |-> d, consumed |-> 0, produced |-> 0]
             /\ UNCHANGED <<stream, status>>
        ELSE /\ c <= b.avail_in /\ p <= b.avail_out
             /\ stream' = a
             /\ status' = ns
             /\ code' = check_status(a, ns, s, d)
             \* after(src, dst), after(dst)
             /\ src' = IF use_src THEN a.next_in ELSE s
             /\ dst' = a.next_out
             /\ codec' = [src |-> s, dst |-> d, consumed |-> c, produced |-> p]

\* operator() when call() throws on a codec error: no return
FilterThrow(s, sl, d, dl) ==
    /\ Early(sl, d, dl) = "none"
    /\ stream' = Prepared(s, sl, d, dl)
    /\ code' = "raised"
    /\ src' = s
    /\ dst' = d
    /\ codec' = [src |-> s, dst |-> d, consumed |-> 0, produced |-> 0]
    /\ UNCHANGED status

\* ------------------------------------------------------------------------
\* file manipulation, POSIX (filesystem/iterator.h): NPaths paths, each the
\* child of an existing directory; the last path is on another device
\* ------------------------------------------------------------------------
Paths == 1..NPaths
\* stat(path).st_dev, of a path or of its parent directory
st_dev(p) == IF p < NPaths THEN 0 ELSE 1
\* a path that does not exist
Missing == [kind |-> "none", data |-> 0]
\* data: the bytes of a file, the number of files in a directory, the
\* target of a link
Entries == {Missing} \cup [kind : {"file", "dir", "link"}, data : 0..NData]
\* exists(stat)
exists(e) == e.kind # "none"
\* what a call gives: the file system after it, and true, false or the
\* filesystem_error it throws
R(f, ret) == [fs |-> f, ret |-> ret]
Bool(b) == IF b THEN "true" ELSE "false"

\* remove_file: unlink
remove_file(f, p) ==
    IF f[p].kind \in {"file", "link"}
    THEN R([f EXCEPT ![p] = Missing], "true")
    ELSE R(f, "false")

\* remove_path: removes the file, the link or the directory tree at p
remove_path(f, p) == R([f EXCEPT ![p] = Missing], Bool(exists(f[p])))

\* rename(2) within one device
rename(f, s, d) ==
    LET ok == /\ exists(f[s])
              /\ st_dev(s) = st_dev(d)
              /\ \/ ~exists(f[d])
                 \/ f[s].kind # "dir" /\ f[d].kind # "dir"
                 \/ f[s].kind = "dir" /\ f[d] = [kind |-> "dir", data |-> 0]
    IN  IF s = d /\ exists(f[s]) THEN R(f, "true")
        ELSE IF ok THEN R([f EXCEPT ![d] = f[s], ![s] = Missing], "true")
        ELSE R(f, "false")

\* mkdir(2)
mkdir(f, p) ==
    IF exists(f[p]) THEN R(f, "false")
    ELSE R([f EXCEPT ![p] = [kind |-> "dir", data |-> 0]], "true")

\* symlink(2): a link at linkpath that holds target
symlink(f, target, linkpath) ==
    IF exists(f[linkpath]) THEN R(f, "false")
    ELSE R([f EXCEPT ![linkpath] = [kind |-> "link", data |-> target]], "true")

\* copy_file_buffer: open(src, O_RDONLY), open(dst, O_WRONLY), read and write
copy_file_buffer(f, s, d) ==
    IF f[s].kind # "file" \/ f[d].kind # "file" THEN R(f, "false")
    ELSE R([f EXCEPT ![d] = f[s]], "true")

\* copy_file, copy_file_impl
copy_file(f, s, d, replace) ==
    IF f[s].kind # "file" THEN R(f, "filesystem_not_a_file")
    ELSE IF exists(f[d]) /\ ~replace THEN R(f, "filesystem_destination_exists")
    ELSE IF exists(f[d]) THEN copy_file_buffer(remove_file(f, d).fs, s, d)
    ELSE copy_file_buffer(f, s, d)

\* copy_dir, copy_dir_impl, copy_dir_shallow_impl, copy_dir_recursive_impl:
\* the copy of the first file of src fails in copy_file_buffer, dst/file
\* does not exist
copy_dir(f, s, d, recursive, replace) ==
    LET g == IF replace /\ exists(f[d]) THEN remove_path(f, d) ELSE R(f, "true")
        m == mkdir(g.fs, d)
    IN  IF g.ret = "false" THEN R(f, "filesystem_destination_exists")
        ELSE IF ~exists(g.fs[s]) THEN R(g.fs, "filesystem_no_such_directory")
        ELSE IF m.ret = "false" THEN m
        ELSE IF recursive /\ g.fs[s].kind = "dir" /\ g.fs[s].data > 0
             THEN R(m.fs, "false")
        ELSE m

\* mklink, mklink_impl: the linker is symlink(dst, target)
mklink(f, target, d, replace) ==
    IF replace /\ exists(f[d]) THEN symlink(remove_file(f, d).fs, d, target)
    ELSE symlink(f, d, target)

\* move_file, move_file_impl
move_file(f, s, d, replace) ==
    LET c == copy_file(f, s, d, replace)
    IN  IF f[s].kind # "file" THEN R(f, "filesystem_not_a_file")
        ELSE IF st_dev(s) # st_dev(d) THEN c
        ELSE IF exists(f[d]) /\ ~replace THEN R(f, "filesystem_destination_exists")
        ELSE IF exists(f[d]) THEN rename(remove_file(f, d).fs, s, d)
        ELSE rename(f, s, d)

\* move_dir, move_dir_impl; dev is dst_stat.st_dev, the stat of dst taken
\* before dst is removed
move_dir(f, s, d, replace, dev) ==
    LET g == IF exists(f[d]) /\ replace THEN remove_path(f, d) ELSE R(f, "true")
        c == copy_dir(g.fs, s, d, TRUE, FALSE)
    IN  IF f[s].kind # "dir" THEN R(f, "filesystem_no_such_directory")
        ELSE IF g.ret = "false" THEN g
        ELSE IF exists(f[d]) /\ ~replace
                /\ f[d] # [kind |-> "dir", data |-> 0]
             THEN R(f, "filesystem_destination_exists")
        ELSE IF st_dev(s) = dev THEN rename(g.fs, s, d)
        ELSE IF c.ret # "true" THEN R(c.fs, "filesystem_unexpected_error")
        \* remove_dir(src): rmdir
        ELSE IF c.fs[s].data > 0 THEN R(c.fs, "filesystem_unexpected_error")
        ELSE R([c.fs EXCEPT ![s] = Missing], "true")

\* a call op(src, dst, replace) that gives r; valid: src is what op takes
Call(op, valid, s, d, replace, r) ==
    /\ fs' = r.fs
    /\ fs_call' = [op |-> op, valid |-> valid, src |-> s, source |-> fs[s],
                   dst |-> d, replace |-> replace, before |-> fs[d],
                   ret |-> r.ret]

MoveFile(s, d, replace) ==
    Call("move_file", fs[s].kind = "file", s, d, replace, move_file(fs, s, d, replace))

MoveDir(s, d, replace) ==
    \E dev \in IF exists(fs[d]) THEN {st_dev(d)} ELSE {0, 1} :
        Call("move_dir", fs[s].kind = "dir", s, d, replace,
             move_dir(fs, s, d, replace, dev))

CopyFile(s, d, replace) ==
    Call("copy_file", fs[s].kind = "file", s, d, replace, copy_file(fs, s, d, replace))

CopyDir(s, d, recursive, replace) ==
    Call("copy_dir", fs[s].kind = "dir", s, d, replace,
         copy_dir(fs, s, d, recursive, replace))

MkLink(t, d, replace) ==
    Call("mklink", exists(fs[t]), t, d, replace, mklink(fs, t, d, replace))

\* ------------------------------------------------------------------------
\* pycpp/itertools/sampling.h: the counting functions, over an unsigned
\* type UInt of UIntBits bits
\* ------------------------------------------------------------------------
\* numeric_limits<UInt>::max()
UIntMax == 2^UIntBits - 1

\* a value stored into a UInt
UInt(x) == x % 2^UIntBits

\* the outcomes of a counting function: a returned value, or overflow_error
Ret(v) == [thrown |-> FALSE, value |-> v]

overflow_error == [thrown |-> TRUE, value |-> 0]

RECURSIVE gcd(_, _)
gcd(x, y) == IF y = 0 THEN x ELSE gcd(y, x % y)

\* the loop of count_each_combination: for (k = 2; k <= d1; ++k, --n)
RECURSIVE combination_loop(_, _, _, _)
combination_loop(d1, k, n, r) ==
    IF k <= d1
    THEN LET g == gcd(r, k)
             q == r \div g
             t == n \div (k \div g)
         IN  IF q > UIntMax \div t
             THEN overflow_error
             ELSE combination_loop(d1, UInt(k + 1), UInt(n - 1), UInt(q * t))
    ELSE Ret(r)

\* count_each_combination without the swap that makes d1 the smaller
count_each_combination_NoSwap(d1, d2) ==
    IF d1 = 0
    THEN Ret(1)
    ELSE IF d1 > UIntMax - d2
         THEN overflow_error
         ELSE combination_loop(d1, 2, UInt(UInt(d1 + d2) - 1), UInt(d1 + d2))

count_each_combination(d1, d2) ==
    LET a == IF d2 < d1 THEN d2 ELSE d1
        b == IF d2 < d1 THEN d1 ELSE d2
    IN  IF a = 0
        THEN Ret(1)
        ELSE IF a > UIntMax - b
             THEN overflow_error
             ELSE combination_loop(a, 2, UInt(UInt(a + b) - 1), UInt(a + b))

\* the loop for (; n > lo; --n) r *= n with no test of r against max / n
RECURSIVE multiply_down_Unchecked(_, _, _)
multiply_down_Unchecked(r, n, lo) ==
    IF n > lo
    THEN multiply_down_Unchecked(UInt(r * n), UInt(n - 1), lo)
    ELSE Ret(r)

\* the loop the counting functions share:
\* for (; n > lo; --n) { if (r > max / n) throw overflow_error; r *= n; }
RECURSIVE multiply_down(_, _, _)
multiply_down(r, n, lo) ==
    IF n > lo
    THEN IF r > UIntMax \div n
         THEN overflow_error
         ELSE multiply_down(UInt(r * n), UInt(n - 1), lo)
    ELSE Ret(r)

count_each_permutation(d1, d2) ==
    IF d1 > UIntMax - d2
    THEN overflow_error
    ELSE multiply_down(1, UInt(d1 + d2), d2)

count_each_circular_permutation(d1, d2) ==
    IF d1 = 0
    THEN Ret(1)
    ELSE IF d1 <= d2
         THEN LET c == count_each_combination(d1, d2)
              IN  IF c.thrown
                  THEN overflow_error
                  ELSE multiply_down(c.value, UInt(d1 - 1), 1)
         ELSE IF d1 > UIntMax - d2
              THEN overflow_error
              ELSE LET upper == multiply_down(1, UInt(d1 + d2), d1)
                   IN  IF upper.thrown
                       THEN overflow_error
                       ELSE multiply_down(upper.value, UInt(d1 - 1), d2)

count_each_reversible_permutation(d1, d2) ==
    IF d1 > UIntMax - d2
    THEN overflow_error
    ELSE LET n == UInt(d1 + d2)
         IN  IF d1 > 1
             THEN LET r == IF n % 2 = 0 THEN n \div 2 ELSE n
                      m == UInt(n - 1)
                      t == IF m % 2 = 0 THEN m \div 2 ELSE m
                  IN  IF r > UIntMax \div t
                      THEN overflow_error
                      ELSE multiply_down(UInt(r * t), UInt(m - 1), d2)
             ELSE multiply_down(1, n, d2)

count_each_reversible_circular_permutation(d1, d2) ==
    LET c == count_each_combination(d1, d2)
    IN  IF c.thrown
        THEN overflow_error
        ELSE IF d1 > 3
             THEN multiply_down(c.value, UInt(d1 - 1), 2)
             ELSE c

\* a call of one of the counting functions on the pair (c_d1, c_d2)
Counted(fn, r) ==
    /\ c_ret' = [fn |-> fn, thrown |-> r.thrown, value |-> r.value]
    /\ UNCHANGED <<c_d1, c_d2>>

CountCombination == Counted("combination", count_each_combination(c_d1, c_d2))

CountPermutation == Counted("permutation", count_each_permutation(c_d1, c_d2))

CountCircular == Counted("circular", count_each_circular_permutation(c_d1, c_d2))

CountReversible == Counted("reversible", count_each_reversible_permutation(c_d1, c_d2))

CountReversibleCircular ==
    Counted("reversible_circular",
            count_each_reversible_circular_permutation(c_d1, c_d2))

\* ------------------------------------------------------------------------
\* pycpp/itertools/sampling.h: the enumerations.  An iterator is an index
\* of the sequence a; an enumeration in progress is a record of the
\* sequence, the number of calls of the user's function so far, the call
\* at which that function returns true (0: at none) and the value returned
\* ------------------------------------------------------------------------
\* swap(*i, *j)
swap(a, i, j) == [a EXCEPT ![i] = a[j], ![j] = a[i]]

RECURSIVE Reversed(_)
Reversed(s) == IF s = <<>> THEN <<>> ELSE Append(Reversed(Tail(s)), Head(s))

\* std::reverse(first, last)
reverse(a, first, last) ==
    SubSeq(a, 1, first - 1) \o Reversed(SubSeq(a, first, last - 1))
        \o SubSeq(a, last, Len(a))

\* std::rotate(first, mid, last)
rotate(a, first, mid, last) ==
    SubSeq(a, 1, first - 1) \o SubSeq(a, mid, last - 1)
        \o SubSeq(a, first, mid - 1) \o SubSeq(a, last, Len(a))

\* std::swap_ranges(first1, last1, first2), element by element
RECURSIVE swap_ranges(_, _, _, _)
swap_ranges(a, first1, last1, first2) ==
    IF first1 = last1
    THEN a
    ELSE swap_ranges(swap(a, first1, first2), first1 + 1, last1, first2 + 1)

\* while (first2 != last2) swap(*--i1, *--last2);
RECURSIVE swap_backward(_, _, _, _)
swap_backward(a, i1, first2, last2) ==
    IF first2 = last2
    THEN a
    ELSE swap_backward(swap(a, i1 - 1, last2 - 1), i1 - 1, first2, last2 - 1)

\* rotate_discontinuous without the closing std::rotate
rotate_discontinuous_SwapOnly(a, first1, last1, d1, first2, last2, d2) ==
    IF d1 <= d2
    THEN swap_ranges(a, first1, last1, first2)
    ELSE swap_backward(a, last1, first2, last2)

rotate_discontinuous(a, first1, last1, d1, first2, last2, d2) ==
    IF d1 <= d2
    THEN rotate(swap_ranges(a, first1, last1, first2),
                first2, first2 + (last1 - first1), last2)
    ELSE rotate(swap_backward(a, last1, first2, last2),
                first1, last1 - (last2 - first2), last1)

\* the user's function: it counts its calls and returns true at call e.stop
callback(e) ==
    [e EXCEPT !.calls = e.calls + 1, !.ret = (e.calls + 1 = e.stop)]

\* the function objects handed to combine_discontinuous and to permute
bound_range(first, last) == [kind |-> "bound_range", first |-> first, last |-> last, d |-> 0]

call_permute(first, last, d) == [kind |-> "call_permute", first |-> first, last |-> last, d |-> d]

\* a circular_permutation that permutes all of [first, last)
circular_permutation_Whole(first, last, s) ==
    [kind |-> "call_permute", first |-> first, last |-> last, d |-> s]

circular_permutation(first, last, s) == [kind |-> "circular_permutation", first |-> first, last |-> last, d |-> s]

\* a step of the unrolled cases of permute: a call of f, or a swap
CallF == <<0, 0>>

\* f() inside permute and permute_: their f is a bound_range in each of the
\* enumerations, and its operator() calls the user's function on its range
bound_range_call(e, f) == callback(e)

\* the rest K of a function after a call whose result c it tests:
\* if (c) return true; K
Then(c, K(_)) == IF c.ret THEN c ELSE K(c)

RECURSIVE run(_, _, _)
RECURSIVE permute_(_, _, _, _, _)
RECURSIVE permute_loop(_, _, _, _, _, _)

\* the statements of an unrolled case, up to the first call that returns true
run(e, steps, f) ==
    IF steps = <<>>
    THEN [e EXCEPT !.ret = FALSE]
    ELSE IF Head(steps) = CallF
         THEN Then(bound_range_call(e, f), LAMBDA c : run(c, Tail(steps), f))
         ELSE run([e EXCEPT !.a = swap(e.a, Head(steps)[1], Head(steps)[2])],
                  Tail(steps), f)

\* for (p = fp1; p != last1; ++p) of permute_ and of permute
permute_loop(e, first1, last1, d1, p, f) ==
    IF p = last1
    THEN [e EXCEPT !.ret = FALSE]
    ELSE Then(permute_(e, first1 + 1, last1, d1 - 1, f),
              LAMBDA c : permute_loop(
                  [c EXCEPT !.a = swap(reverse(c.a, first1 + 1, last1), first1, p)],
                  first1, last1, d1, p + 1, f))

permute_(e, first1, last1, d1, f) ==
    LET f2 == first1 + 1
        f3 == first1 + 2
    IN  CASE d1 \in {0, 1} -> bound_range_call(e, f)
          [] d1 = 2 -> run(e, <<CallF, <<first1, f2>>, CallF>>, f)
          [] d1 = 3 ->
                run(e, <<CallF, <<f2, f3>>, CallF, <<first1, f3>>, <<f2, f3>>, CallF,
                         <<f2, f3>>, CallF, <<first1, f2>>, <<f2, f3>>, CallF,
                         <<f2, f3>>, CallF>>, f)
          [] OTHER ->
                Then(permute_loop(e, first1, last1, d1, first1 + 1, f),
                     LAMBDA c : permute_(c, first1 + 1, last1, d1 - 1, f))

permute(e, first1, last1, d1, f) ==
    LET f2 == first1 + 1
        f3 == first1 + 2
    IN  CASE d1 \in {0, 1} -> bound_range_call(e, f)
          [] d1 = 2 ->
                run(e, <<CallF, <<first1, f2>>, CallF, <<first1, f2>>>>, f)
          [] d1 = 3 ->
                run(e, <<CallF, <<f2, f3>>, CallF, <<first1, f3>>, <<f2, f3>>, CallF,
                         <<f2, f3>>, CallF, <<first1, f2>>, <<f2, f3>>, CallF,
                         <<f2, f3>>, CallF, <<first1, f3>>>>, f)
          [] OTHER ->
                Then(Then(permute_loop(e, first1, last1, d1, first1 + 1, f),
                          LAMBDA c : permute_(c, first1 + 1, last1, d1 - 1, f)),
                     LAMBDA b : [b EXCEPT !.a = reverse(b.a, first1, last1)])

\* f() inside combine_discontinuous: operator() of bound_range, of
\* call_permute and of circular_permutation
invoke(e, f) ==
    CASE f.kind = "bound_range" -> callback(e)
      [] f.kind = "call_permute" ->
            permute(e, f.first, f.last, f.d, bound_range(f.first, f.last))
      [] f.kind = "circular_permutation" ->
            IF f.d <= 1
            THEN callback(e)
            ELSE permute(e, f.first + 1, f.last, f.d - 1, bound_range(f.first, f.last))

RECURSIVE combine_loop(_, _, _, _, _, _, _, _, _)
RECURSIVE combine_discontinuous(_, _, _, _, _, _, _, _, _)

\* the loops of combine_discontinuous over i2, for d1 = 1 and for d1 > 1
combine_loop(e, first1, last1, d1, i2, last2, d22, f, d) ==
    IF i2 = last2
    THEN [e EXCEPT !.ret = FALSE]
    ELSE Then(IF d1 = 1
              THEN invoke(e, f)
              ELSE combine_discontinuous(e, first1 + 1, last1, d1 - 1,
                                         i2, last2, d22, f, d + 1),
              LAMBDA c : combine_loop([c EXCEPT !.a = swap(c.a, first1, i2)],
                                      first1, last1, d1, i2 + 1, last2, d22 - 1, f, d))

combine_discontinuous(e, first1, last1, d1, first2, last2, d2, f, d) ==
    IF d1 = 0 \/ d2 = 0
    THEN invoke(e, f)
    ELSE Then(Then(combine_loop(e, first1, last1, d1, first2, last2, d2, f, d),
                   LAMBDA l : invoke(l, f)),
              LAMBDA c : [c EXCEPT !.a =
                             IF d # 0
                             THEN rotate_discontinuous(c.a, first1, last1, d1,
                                                       first2 + 1, last2, d2 - 1)
                             ELSE rotate_discontinuous(c.a, first1, last1, d1,
                                                       first2, last2, d2)])

\* an enumeration of the sequence a that has not called its function yet
Enumeration(a, stop) == [a |-> a, calls |-> 0, stop |-> stop, ret |-> FALSE]

for_each_combination(a, mid, stop) ==
    combine_discontinuous(Enumeration(a, stop), 1, mid, mid - 1,
                          mid, Len(a) + 1, Len(a) + 1 - mid,
                          bound_range(1, mid), 0)

for_each_permutation(a, mid, stop) ==
    combine_discontinuous(Enumeration(a, stop), 1, mid, mid - 1,
                          mid, Len(a) + 1, Len(a) + 1 - mid,
                          call_permute(1, mid, mid - 1), 0)

for_each_circular_permutation(a, mid, stop) ==
    combine_discontinuous(Enumeration(a, stop), 1, mid, mid - 1,
                          mid, Len(a) + 1, Len(a) + 1 - mid,
                          circular_permutation(1, mid, mid - 1), 0)

\* a call of one of the enumerations on [first, mid) and [mid, last)
Enumerated(fn, r) ==
    /\ e_out' = [fn |-> fn, a |-> r.a, calls |-> r.calls, ret |-> r.ret]
    /\ UNCHANGED <<e_a, e_mid, e_stop>>

ForEachCombination ==
    Enumerated("combination", for_each_combination(e_a, e_mid, e_stop))

ForEachPermutation ==
    Enumerated("permutation", for_each_permutation(e_a, e_mid, e_stop))

ForEachCircularPermutation ==
    Enumerated("circular", for_each_circular_permutation(e_a, e_mid, e_stop))

\* ------------------------------------------------------------------------
\* pycpp/hashlib/sha256.cc: sha256_update and sha256_final over the
\* sha2_256_context.  ctx.message is kept as its 64 bytes in memory order.
\* sha256_process_block is a function of the eight hash words and of the 64
\* bytes of the block and of nothing else: ctx.hash is kept as the term of
\* that function, the sequence of the blocks processed since sha256_init
\* ------------------------------------------------------------------------
SHA256_BLOCK_SIZE == 64

\* byte i of the message that is hashed
Msg(seed, i) == (seed + 37 * i) % 256

\* the bytes at offsets [from, from + len) of the message
Chunk(seed, from, len) == SubSeq([i \in 1..(from + len) |-> Msg(seed, i - 1)], from + 1, from + len)

sha256_process_block(hash, block) == Append(hash, block)

sha256_init ==
    [length |-> 0, message |-> [i \in 1..SHA256_BLOCK_SIZE |-> 0], hash |-> <<>>]

\* memcpy into ctx->message at the offset of the carried bytes, done at 0
store_AtStart(message, at, bytes) ==
    bytes \o SubSeq(message, Len(bytes) + 1, SHA256_BLOCK_SIZE)

\* memcpy((char*)ctx->message + at, bytes, Len(bytes))
store(message, at, bytes) ==
    SubSeq(message, 1, at) \o bytes
        \o SubSeq(message, at + Len(bytes) + 1, SHA256_BLOCK_SIZE)

\* while (len >= SHA256_BLOCK_SIZE) { ... } if (len) save leftovers;
\* msg is at address addr, and aligned when addr is a multiple of 4
RECURSIVE sha256_update_blocks(_, _, _)
sha256_update_blocks(c, msg, addr) ==
    IF Len(msg) >= SHA256_BLOCK_SIZE
    THEN LET block == SubSeq(msg, 1, SHA256_BLOCK_SIZE)
             rest == SubSeq(msg, SHA256_BLOCK_SIZE + 1, Len(msg))
             m == IF addr % 4 = 0 THEN c.message ELSE store(c.message, 0, block)
         IN  sha256_update_blocks(
                 [c EXCEPT !.message = m,
                           !.hash = sha256_process_block(c.hash, block)],
                 rest, addr + SHA256_BLOCK_SIZE)
    ELSE IF Len(msg) > 0
         THEN [c EXCEPT !.message = store(c.message, 0, msg)]
         ELSE c

sha256_update(c, msg, addr) ==
    LET index == c.length % SHA256_BLOCK_SIZE
        len == Len(msg)
        left == SHA256_BLOCK_SIZE - index
        c1 == [c EXCEPT !.length = c.length + len]
    IN  IF index # 0
        THEN LET c2 == [c1 EXCEPT !.message =
                           store(c.message, index,
                                 SubSeq(msg, 1, IF len < left THEN len ELSE left))]
             IN  IF len < left
                 THEN c2
                 ELSE sha256_update_blocks(
                          [c2 EXCEPT !.hash = sha256_process_block(c2.hash, c2.message)],
                          SubSeq(msg, left + 1, len), addr + left)
        ELSE sha256_update_blocks(c1, msg, addr)

\* byte at offset o of the block that holds the message length in bits,
\* big-endian, in its last 8 bytes
LengthByte(length, o) ==
    LET e == 8 * (SHA256_BLOCK_SIZE - 1 - o) - 3
    IN  IF e < 0 THEN (length % 32) * 8
        ELSE IF e > 30 THEN 0 ELSE (length \div 2^e) % 256

\* the hash words sha256_final stores into the result
sha256_final(c) ==
    LET tail == c.length % SHA256_BLOCK_SIZE
        index == tail \div 4 + 1
        \* message[index] &= ~(0xFFFFFFFF << shift); message[index++] ^= 0x80 << shift
        marked == [o \in 0..(SHA256_BLOCK_SIZE - 1) |->
                      IF o < tail THEN c.message[o + 1]
                      ELSE IF o = tail THEN 128
                      ELSE IF o < 4 * index THEN 0 ELSE c.message[o + 1]]
        \* if (index > 14) { zero up to 16, process the block, index = 0 }
        spill == index > 14
        filled == [o \in 0..(SHA256_BLOCK_SIZE - 1) |->
                      IF o >= 4 * index THEN 0 ELSE marked[o]]
        hash1 == IF spill
                 THEN sha256_process_block(c.hash, [i \in 1..SHA256_BLOCK_SIZE |-> filled[i - 1]])
                 ELSE c.hash
        from == IF spill THEN 0 ELSE 4 * index
        \* while (index < 14) message[index++] = 0; message[14], message[15]
        last == [i \in 1..SHA256_BLOCK_SIZE |->
                    IF i - 1 >= SHA256_BLOCK_SIZE - 8 THEN LengthByte(c.length, i - 1)
                    ELSE IF i - 1 >= from THEN 0
                    ELSE marked[i - 1]]
    IN  sha256_process_block(hash1, last)

\* update(src, srclen) of the hash object, on the next len bytes of the message
Sha256Update(len, addr) ==
    /\ ~digest.done
    /\ ctx.length + len <= MaxMsg
    /\ ctx' = sha256_update(ctx, Chunk(sha_seed, ctx.length, len), addr)
    /\ UNCHANGED <<sha_seed, digest>>

\* digest() of the hash object
Sha256Digest ==
    /\ ~digest.done
    /\ digest' = [done |-> TRUE, hash |-> sha256_final(ctx)]
    /\ UNCHANGED <<sha_seed, ctx>>

\* ------------------------------------------------------------------------
\* pycpp/string/punycode.cc: encode_impl and decode_impl, as the string
\* overloads of utf32_to_punycode and punycode_to_utf32 call them.  A
\* uint32_t has UInt32Bits bits; a size_t has as many (a 32-bit build) or
\* twice as many (a 64-bit build)
\* ------------------------------------------------------------------------
UInt32(x) == x % 2^UInt32Bits

INT32_MAX == 2^(UInt32Bits - 1) - 1

SIZE_MAX(bits) == 2^bits - 1

\* for (k = 0; delta > ((base - tmin) * tmax) / 2; k += base) delta /= base - tmin;
\* return k + (((base - tmin + 1) * delta) / (delta + skew));
RECURSIVE adapt_scale(_, _)
adapt_scale(delta, k) ==
    IF delta > (35 * 26) \div 2
    THEN adapt_scale(delta \div 35, k + 36)
    ELSE k + (36 * delta) \div (delta + 38)

adapt_bias(delta, points, first) ==
    LET damped == delta \div (IF first THEN 700 ELSE 2)
    IN  adapt_scale(damped + damped \div points, 0)

threshold(k, bias) ==
    IF k <= bias THEN 1 ELSE IF k >= bias + 26 THEN 26 ELSE k - bias

\* c <= range at both calls of encode_byte, which raises out_of_range otherwise
encode_byte(c) == IF c > 25 THEN c + 22 ELSE c + 97

decode_byte(c) ==
    IF c >= 48 /\ c <= 57 THEN c - 22
    ELSE IF c >= 97 /\ c <= 122 THEN c - 97
    ELSE IF c >= 65 /\ c <= 90 THEN c - 65
    ELSE 36

\* dst after encode_character(bias, delta, dst, dst_last), cap bytes long at most
RECURSIVE encode_character(_, _, _, _, _)
encode_character(bias, k, q, to, cap) ==
    IF Len(to) < cap
    THEN LET t == threshold(k, bias)
         IN  IF q < t
             THEN Append(to, encode_byte(q))
             ELSE encode_character(bias, k + 36, (q - t) \div (36 - t),
                                   Append(to, encode_byte(t + ((q - t) % (36 - t)))), cap)
    ELSE to

\* for (src = src_first; src < src_last; ++src) of encode_impl, at src[j]
RECURSIVE encode_add(_, _, _, _, _)
encode_add(e, seq, j, basic, cap) ==
    IF j > Len(seq) \/ e.status # "ok"
    THEN e
    ELSE IF seq[j] < e.n
         THEN encode_add(
                  IF UInt32(e.delta + 1) = 0
                  THEN [e EXCEPT !.status = "overflow_error"]
                  ELSE [e EXCEPT !.delta = UInt32(e.delta + 1)],
                  seq, j + 1, basic, cap)
         ELSE IF seq[j] = e.n
              THEN encode_add(
                       [e EXCEPT !.dst = encode_character(e.bias, 36, e.delta, e.dst, cap),
                                 !.bias = adapt_bias(e.delta, e.h + 1, e.h = basic),
                                 !.delta = 0,
                                 !.h = UInt32(e.h + 1)],
                       seq, j + 1, basic, cap)
              ELSE encode_add(e, seq, j + 1, basic, cap)

\* the smallest code point of seq that is at least n, SIZE_MAX if none
Smallest(seq, n, bits) ==
    LET at == {seq[j] : j \in 1..Len(seq)} \cap n..SIZE_MAX(bits)
    IN  IF at = {} THEN SIZE_MAX(bits) ELSE CHOOSE c \in at : \A o \in at : c <= o

\* !((m - n) > (SIZE_MAX - delta) / (h + 1))
encode_fits(m, e, bits) ==
    (m - e.n) <= (SIZE_MAX(bits) - e.delta) \div (e.h + 1)

\* for (; h < srclen && dst < dst_last; n++, delta++) of encode_impl;
\* e.wrapped records a delta that left the range of uint32_t unnoticed
RECURSIVE encode_loop(_, _, _, _, _)
encode_loop(e, seq, basic, cap, bits) ==
    IF e.status = "ok" /\ e.h < Len(seq) /\ Len(e.dst) < cap
    THEN LET m == Smallest(seq, e.n, bits)
         IN  IF ~encode_fits(m, e, bits)
             THEN [e EXCEPT !.status = "overflow_error"]
             ELSE LET sum == e.delta + UInt32((m - e.n) * (e.h + 1))
                      a == encode_add(
                               [e EXCEPT !.delta = UInt32(sum), !.n = UInt32(m),
                                         !.wrapped = e.wrapped
                                             \/ e.delta + (m - e.n) * (e.h + 1)
                                                    > SIZE_MAX(UInt32Bits)],
                               seq, 1, basic, cap)
                  IN  IF a.status # "ok"
                      THEN a
                      ELSE encode_loop(
                               [a EXCEPT !.n = UInt32(a.n + 1),
                                         !.delta = UInt32(a.delta + 1),
                                         !.wrapped = a.wrapped
                                             \/ a.delta + 1 > SIZE_MAX(UInt32Bits)],
                               seq, basic, cap, bits)
    ELSE e

\* the bytes utf32_to_punycode(str) returns, or the error it raises
encode_impl(seq, bits) ==
    LET copied == SelectSeq(seq, LAMBDA c : c < 128)
        basic == Len(copied)
        e == encode_loop([dst |-> IF basic # 0 THEN Append(copied, 45) ELSE copied,
                          h |-> basic, n |-> 128, bias |-> 72, delta |-> 0,
                          wrapped |-> FALSE, status |-> "ok"],
                         seq, basic, 6 * Len(seq), bits)
    IN  [done |-> TRUE, status |-> e.status, out |-> e.dst, wrapped |-> e.wrapped]

\* for (size_t w = 1, k = base; di < dstlen; k += base) of decode_impl;
\* reading src[si] past the end of the source is undefined
RECURSIVE decode_digits(_, _, _, _)
decode_digits(d, bytes, w, k) ==
    IF d.si >= Len(bytes)
    THEN [d EXCEPT !.status = "undefined"]
    ELSE LET digit == decode_byte(bytes[d.si + 1])
             t == threshold(k, d.bias)
         IN  IF digit >= 36 \/ digit > (INT32_MAX - d.i) \div w
             THEN [d EXCEPT !.status = "overflow_error"]
             ELSE IF digit < t
                  THEN [d EXCEPT !.si = d.si + 1, !.i = d.i + digit * w]
                  ELSE IF w > INT32_MAX \div (36 - t)
                       THEN [d EXCEPT !.status = "overflow_error"]
                       ELSE decode_digits(
                                [d EXCEPT !.si = d.si + 1, !.i = d.i + digit * w],
                                bytes, w * (36 - t), k + 36)

\* for (si = basic + (basic > 0); si < srclen && di < dstlen; di++)
RECURSIVE decode_loop(_, _, _)
decode_loop(d, bytes, dstlen) ==
    IF d.status = "ok" /\ d.si < Len(bytes) /\ Len(d.dst) < dstlen
    THEN LET g == decode_digits(d, bytes, 1, 36)
             x == Len(d.dst) + 1
         IN  IF g.status # "ok"
             THEN g
             ELSE IF g.i \div x > INT32_MAX - g.n
                  THEN [g EXCEPT !.status = "overflow_error"]
                  ELSE LET n == g.n + g.i \div x
                           i == g.i % x
                       IN  decode_loop(
                               [g EXCEPT !.bias = adapt_bias(UInt32(g.i - d.i), UInt32(x), d.i = 0),
                                         !.n = n,
                                         !.i = i + 1,
                                         !.dst = SubSeq(g.dst, 1, i) \o <<UInt32(n)>>
                                                     \o SubSeq(g.dst, i + 1, Len(g.dst))],
                               bytes, dstlen)
    ELSE d

\* the code points punycode_to_utf32(str) returns, or the error it raises
decode_impl(bytes, bits) ==
    LET srclen == Len(bytes)
        dstlen == srclen
        dashes == {p \in 1..(srclen - 1) : bytes[p + 1] = 45}
        \* for (ptr = src + srclen - 1; ptr > src && *ptr != '-'; --ptr);
        basic == IF srclen = 0 THEN SIZE_MAX(bits)
                 ELSE IF dashes = {} THEN 0
                 ELSE CHOOSE p \in dashes : \A o \in dashes : o <= p
        di == IF basic < dstlen THEN basic ELSE dstlen
        d == IF \E p \in 1..srclen : bytes[p] >= 128
             THEN [status |-> "ok", dst |-> <<>>]
             ELSE decode_loop([dst |-> SubSeq(bytes, 1, di),
                               si |-> (basic + (IF basic > 0 THEN 1 ELSE 0)) % 2^bits,
                               i |-> 0, n |-> 128, bias |-> 72, status |-> "ok"],
                              bytes, dstlen)
    IN  [done |-> TRUE, status |-> d.status, out |-> d.dst]

\* utf32_to_punycode(str)
PunyEncode ==
    /\ ~p_enc.done
    /\ p_enc' = encode_impl(p_src, p_bits)
    /\ UNCHANGED <<p_src, p_bits, p_dec>>

\* punycode_to_utf32(str) of the string utf32_to_punycode returned
PunyDecode ==
    /\ p_enc.done
    /\ p_enc.status = "ok"
    /\ ~p_dec.done
    /\ p_dec' = decode_impl(p_enc.out, p_bits)
    /\ UNCHANGED <<p_src, p_bits, p_enc>>

\* ------------------------------------------------------------------------
\* the string algorithms find, rfind, index and rindex over the string
\* view of pycpp/view/string.h.  A size_t has WordBits bits; a string is
\* the sequence of its characters
\* ------------------------------------------------------------------------
out_of_range == [thrown |-> TRUE, value |-> 0]

\* the offsets at which sub is found in s
Matches(s, sub) ==
    {i \in 0..(Len(s) - Len(sub)) : SubSeq(s, i + 1, i + Len(sub)) = sub}

\* basic_string_view(str, pos, len), which substr(pos, len) returns
substr(s, pos, len) ==
    IF pos > Len(s)
    THEN out_of_range
    ELSE LET n == IF len < Len(s) - pos THEN len ELSE Len(s) - pos
         IN  Ret(SubSeq(s, pos + 1, pos + n))

\* basic_string_view::find(str): found ? found - data() : npos, where
\* ::find of pycpp/string/find.h gives the first match or a null pointer
find(s, sub) ==
    IF Matches(s, sub) = {}
    THEN SizeMax
    ELSE CHOOSE i \in Matches(s, sub) : \A j \in Matches(s, sub) : i <= j

\* basic_string_view::rfind(str), with ::rfind giving the last match
rfind(s, sub) ==
    IF Matches(s, sub) = {}
    THEN SizeMax
    ELSE CHOOSE i \in Matches(s, sub) : \A j \in Matches(s, sub) : j <= i

find_impl(str, sub, start, end) ==
    IF end < start
    THEN Ret(SizeMax)
    ELSE LET v == IF end = SizeMax
                  THEN substr(str, start, SizeMax)
                  ELSE substr(str, start, end - start)
         IN  IF v.thrown THEN out_of_range ELSE Ret(find(v.value, sub))

rfind_impl(str, sub, start, end) ==
    IF end < start
    THEN Ret(SizeMax)
    ELSE LET v == IF end = SizeMax
                  THEN substr(str, start, SizeMax)
                  ELSE substr(str, start, end - start)
         IN  IF v.thrown
             THEN out_of_range
             ELSE Ret((rfind(v.value, sub) + start) % Word)

index_impl(str, sub, start, end) ==
    LET i == find_impl(str, sub, start, end)
    IN  IF ~i.thrown /\ i.value = SizeMax THEN out_of_range ELSE i

rindex_impl(str, sub, start, end) ==
    LET i == rfind_impl(str, sub, start, end)
    IN  IF ~i.thrown /\ i.value = SizeMax THEN out_of_range ELSE i

\* a call of one of the four on (f_str, f_sub, f_start, f_end)
Searched(op, r) ==
    /\ f_ret' = [op |-> op, thrown |-> r.thrown, value |-> r.value]
    /\ UNCHANGED <<f_str, f_sub, f_start, f_end>>

StrFind == Searched("find", find_impl(f_str, f_sub, f_start, f_end))

StrRfind == Searched("rfind", rfind_impl(f_str, f_sub, f_start, f_end))

StrIndex == Searched("index", index_impl(f_str, f_sub, f_start, f_end))

StrRindex == Searched("rindex", rindex_impl(f_str, f_sub, f_start, f_end))

\* ------------------------------------------------------------------------
\* the string algorithms split, join and quoted_split, and parse_csv_row of
\* the CSV reader.  A string is a sequence of one-character strings.
\* ------------------------------------------------------------------------

Letters == {",", "\"", "\\", "a"}

\* split_impl: first and interval are offsets into str, last is Len(str);
\* is_split is the set of characters the predicate accepts; store_cb appends
\* the range [first, interval) to data
RECURSIVE split_impl(_, _, _, _, _, _)
split_impl(str, first, interval, maxsplit, is_split, data) ==
    IF interval # Len(str) /\ maxsplit # 0
    THEN IF str[interval + 1] \in is_split
         THEN IF interval + 1 = Len(str)
              THEN Append(Append(data, SubSeq(str, first + 1, interval)), <<>>)
              ELSE split_impl(str, interval + 1, interval + 1, maxsplit - 1,
                              is_split,
                              Append(data, SubSeq(str, first + 1, interval)))
         ELSE split_impl(str, first, interval + 1, maxsplit, is_split, data)
    ELSE IF first # Len(str)
         THEN Append(data, SubSeq(str, first + 1, Len(str)))
         ELSE data

\* split(str, sep, maxsplit): a character splits when sep contains it
split(str, sep, maxsplit) ==
    split_impl(str, 0, 0, maxsplit, {sep[i] : i \in DOMAIN sep}, <<>>)

\* the loop of join_impl: every item followed by the separator
RECURSIVE join_append(_, _, _)
join_append(list, sep, string) ==
    IF list = <<>> THEN string
    ELSE join_append(Tail(list), sep, string \o Head(list) \o sep)

\* join_impl without the erase of the trailing separator
join_impl_NoErase(list, sep) == join_append(list, sep, <<>>)

join_impl(list, sep) ==
    LET string == join_append(list, sep, <<>>) IN
    IF string # <<>>
    THEN SubSeq(string, 1, Len(string) - Len(sep))
    ELSE string

\* quoted_split_impl with the delimiter tested before the in-quote flag
RECURSIVE quoted_split_impl_SplitInQuotes(_, _, _, _, _, _, _)
quoted_split_impl_SplitInQuotes(str, it, punct, is_quoted, is_escaped, word, data) ==
    IF it = Len(str) THEN Append(data, word)
    ELSE LET c == str[it + 1] IN
         IF is_escaped
         THEN quoted_split_impl_SplitInQuotes(str, it + 1, punct, is_quoted,
                                              FALSE, Append(word, c), data)
         ELSE IF c = punct.escape
         THEN quoted_split_impl_SplitInQuotes(str, it + 1, punct, is_quoted,
                                              TRUE, word, data)
         ELSE IF c = punct.quote
         THEN quoted_split_impl_SplitInQuotes(str, it + 1, punct, ~is_quoted,
                                              FALSE, word, data)
         ELSE IF c = punct.delimiter
         THEN quoted_split_impl_SplitInQuotes(str, it + 1, punct, is_quoted,
                                              FALSE, <<>>, Append(data, word))
         ELSE quoted_split_impl_SplitInQuotes(str, it + 1, punct, is_quoted,
                                              FALSE, Append(word, c), data)

\* quoted_split_impl: it is the offset of the next character, word the
\* first j characters of the scratch buffer, data the fields so far
RECURSIVE quoted_split_impl(_, _, _, _, _, _, _)
quoted_split_impl(str, it, punct, is_quoted, is_escaped, word, data) ==
    IF it = Len(str) THEN Append(data, word)
    ELSE LET c == str[it + 1] IN
         IF is_escaped
         THEN quoted_split_impl(str, it + 1, punct, is_quoted, FALSE,
                                Append(word, c), data)
         ELSE IF c = punct.escape
         THEN quoted_split_impl(str, it + 1, punct, is_quoted, TRUE, word, data)
         ELSE IF c = punct.quote
         THEN quoted_split_impl(str, it + 1, punct, ~is_quoted, FALSE, word, data)
         ELSE IF is_quoted
         THEN quoted_split_impl(str, it + 1, punct, TRUE, FALSE,
                                Append(word, c), data)
         ELSE IF c = punct.delimiter
         THEN quoted_split_impl(str, it + 1, punct, FALSE, FALSE, <<>>,
                                Append(data, word))
         ELSE quoted_split_impl(str, it + 1, punct, FALSE, FALSE,
                                Append(word, c), data)

\* parse_csv_row: the same scan over the line read from the stream, with
\* the flags named quote and escape and the word kept in a vector
RECURSIVE parse_csv_row(_, _, _, _, _, _, _)
parse_csv_row(line, at, punct, quote, escape, word, row) ==
    IF at = Len(line) THEN Append(row, word)
    ELSE LET c == line[at + 1] IN
         IF escape
         THEN parse_csv_row(line, at + 1, punct, quote, FALSE,
                            Append(word, c), row)
         ELSE IF c = punct.escape
         THEN parse_csv_row(line, at + 1, punct, quote, TRUE, word, row)
         ELSE IF c = punct.quote
         THEN parse_csv_row(line, at + 1, punct, ~quote, FALSE, word, row)
         ELSE IF quote
         THEN parse_csv_row(line, at + 1, punct, TRUE, FALSE,
                            Append(word, c), row)
         ELSE IF c = punct.delimiter
         THEN parse_csv_row(line, at + 1, punct, FALSE, FALSE, <<>>,
                            Append(row, word))
         ELSE parse_csv_row(line, at + 1, punct, FALSE, FALSE,
                            Append(word, c), row)

\* join(split(str, sep, maxsplit), sep)
StrSplitJoin ==
    /\ s_ret.op = "none"
    /\ s_arg.kind = "sep"
    /\ LET list == split(s_str, s_arg.sep, s_arg.maxsplit) IN
       s_ret' = [op |-> "split", list |-> list,
                 out |-> join_impl(list, s_arg.sep)]
    /\ UNCHANGED <<s_str, s_arg>>

\* quoted_split(str, delimiter, quote, escape)
StrQuotedSplit ==
    /\ s_ret.op = "none"
    /\ s_arg.kind = "punct"
    /\ s_ret' = [op |-> "quoted_split",
                 list |-> quoted_split_impl(s_str, 0, s_arg, FALSE, FALSE,
                                            <<>>, <<>>),
                 out |-> <<>>]
    /\ UNCHANGED <<s_str, s_arg>>

\* csv_stream_reader::operator(): one line parsed into a row
CsvReadRow ==
    /\ s_ret.op = "none"
    /\ s_arg.kind = "punct"
    /\ s_ret' = [op |-> "csv",
                 list |-> parse_csv_row(s_str, 0, s_arg, FALSE, FALSE,
                                        <<>>, <<>>),
                 out |-> <<>>]
    /\ UNCHANGED <<s_str, s_arg>>

\* ------------------------------------------------------------------------
\* json_dom_handler (json/dom.cc) driven by a SAX reader.  j_heap holds the
\* json_value_t objects: j_heap[1] is the document (*root), the others were
\* made by new; a value is its type and, for a container, its children
\* (key "" in an array).  levels holds indices of j_heap.
\* ------------------------------------------------------------------------
JsonScalars == {"null", "boolean", "number", "string"}
JsonKeys == {"a", "b"}

\* json_value_t of the given type, a container being empty
json_value_t(type) == [type |-> type, kids |-> <<>>]

\* parent->get_object().emplace(key, value): nothing if the key is there
emplace(v, k, id) ==
    IF \E i \in DOMAIN v.kids : v.kids[i].key = k
    THEN v
    ELSE [v EXCEPT !.kids = Append(@, [key |-> k, id |-> id])]

\* parent->get_array().emplace_back(value)
emplace_back(v, id) ==
    [v EXCEPT !.kids = Append(@, [key |-> "", id |-> id])]

\* levels.pop_back(); on an empty vector the behaviour is undefined
pop_back ==
    IF levels = <<>>
    THEN j_ub' = TRUE /\ UNCHANGED levels
    ELSE levels' = SubSeq(levels, 1, Len(levels) - 1) /\ UNCHANGED j_ub

\* add_value(new json_value_t(...)) for a value of the given type
add_value(type) ==
    IF levels = <<>>
    THEN \* levels.back() of an empty vector
         /\ j_ub' = TRUE
         /\ UNCHANGED <<j_heap, levels, has_key_, key_, j_thrown>>
    ELSE LET parent == levels[Len(levels)]
             value == Len(j_heap) + 1
         IN  IF Len(levels) = 1 /\ j_heap[parent].type = "null"
             THEN \* root element: swap(*parent, *value); delete value; return
                  /\ j_heap' = [j_heap EXCEPT ![parent] = json_value_t(type)]
                  /\ UNCHANGED <<levels, has_key_, key_, j_ub, j_thrown>>
             ELSE IF has_key_ /\ j_heap[parent].type # "object"
             THEN \* get_object() throws runtime_error
                  /\ j_thrown' = TRUE
                  /\ UNCHANGED <<j_heap, levels, has_key_, key_, j_ub>>
             ELSE IF ~has_key_ /\ j_heap[parent].type # "array"
             THEN \* get_array() throws runtime_error
                  /\ j_thrown' = TRUE
                  /\ UNCHANGED <<j_heap, levels, has_key_, key_, j_ub>>
             ELSE /\ j_heap' =
                        Append([j_heap EXCEPT ![parent] =
                                   IF has_key_ THEN emplace(@, key_, value)
                                   ELSE emplace_back(@, value)],
                               json_value_t(type))
                  /\ has_key_' = FALSE
                  /\ levels' = IF type \in {"object", "array"}
                               THEN Append(levels, value)
                               ELSE levels
                  /\ UNCHANGED <<key_, j_ub, j_thrown>>

\* the reader: the containers it has opened and not closed (type and number
\* of values read so far, keyed: a key was read and its value not yet)
JsonRunning == ~j_ub /\ ~j_thrown
Event(e) == j_event' = e
Innermost == j_open[Len(j_open)]
ExpectsValue ==
    \/ j_phase = "start" /\ j_open = <<>>
    \/ j_open # <<>> /\ Innermost.type = "array" /\ Innermost.count < MaxKids
    \/ j_open # <<>> /\ Innermost.type = "object" /\ Innermost.keyed
\* a value was read: the document's own, or one more of the open container
ValueRead(opened) ==
    IF opened = <<>> THEN <<>>
    ELSE [opened EXCEPT ![Len(opened)] =
             [type |-> @.type, count |-> @.count + 1, keyed |-> FALSE]]
Opened(type) ==
    /\ j_open' = Append(ValueRead(j_open),
                        [type |-> type, count |-> 0, keyed |-> FALSE])
    /\ j_phase' = "value"
Closed ==
    /\ j_open' = SubSeq(j_open, 1, Len(j_open) - 1)
    /\ j_phase' = IF Len(j_open) = 1 THEN "end" ELSE "value"

\* start_document()
StartDocument ==
    /\ JsonRunning /\ j_phase = "new"
    /\ levels' = Append(levels, 1)
    /\ j_phase' = "start"
    /\ Event("start_document")
    /\ UNCHANGED <<j_heap, has_key_, key_, j_open, j_ub, j_thrown>>

\* end_document()
EndDocument ==
    /\ JsonRunning /\ j_phase = "end"
    /\ pop_back
    /\ j_phase' = "done"
    /\ Event("end_document")
    /\ UNCHANGED <<j_heap, has_key_, key_, j_open, j_thrown>>

\* start_object()
StartObject ==
    /\ JsonRunning /\ ExpectsValue /\ Len(j_open) < MaxDepth
    /\ add_value("object")
    /\ Opened("object")
    /\ Event("start_object")

\* start_array()
StartArray ==
    /\ JsonRunning /\ ExpectsValue /\ Len(j_open) < MaxDepth
    /\ add_value("array")
    /\ Opened("array")
    /\ Event("start_array")

\* end_object(size_t)
EndObject ==
    /\ JsonRunning /\ j_open # <<>>
    /\ Innermost.type = "object" /\ ~Innermost.keyed
    /\ pop_back
    /\ Closed
    /\ Event("end_object")
    /\ UNCHANGED <<j_heap, has_key_, key_, j_thrown>>

\* end_array(size_t)
EndArray ==
    /\ JsonRunning /\ j_open # <<>>
    /\ Innermost.type = "array"
    /\ pop_back
    /\ Closed
    /\ Event("end_array")
    /\ UNCHANGED <<j_heap, has_key_, key_, j_thrown>>

\* key(s, n)
Key(k) ==
    /\ JsonRunning /\ j_open # <<>>
    /\ Innermost.type = "object" /\ ~Innermost.keyed
    /\ Innermost.count < MaxKids
    /\ has_key_' = TRUE
    /\ key_' = k
    /\ j_open' = [j_open EXCEPT ![Len(j_open)].keyed = TRUE]
    /\ Event("key")
    /\ UNCHANGED <<j_heap, levels, j_phase, j_ub, j_thrown>>

\* null(), boolean(v), number(d), string(s, n)
Scalar(type) ==
    /\ JsonRunning /\ ExpectsValue
    /\ add_value(type)
    /\ j_open' = ValueRead(j_open)
    /\ j_phase' = IF j_open = <<>> THEN "end" ELSE "value"
    /\ Event(type)

\* ------------------------------------------------------------------------
\* the helpers that allocate a scratch buffer and call a converter: hex
\* (string/hex.cc), punycode_conversion (string/punycode.cc) and
\* ctx_decompress (compression/core.h).  The heap is the set of the live
\* blocks' base addresses; a pointer is a base and an offset into the block.
\* What the steps of a call that can raise do is given by a script: for hex
\* and punycode_conversion the three of them in order (the two new[] and
\* base16_encode; allocate, cb1 and cb2), for ctx_decompress the turns of
\* its loop.
\* ------------------------------------------------------------------------
NullPtr == [base |-> 0, off |-> 0]
EmptyHeap == [live |-> {}, ub |-> FALSE]

\* free(p), delete[] p, deallocate(p, n): p must be null or the address an
\* allocation returned, anything else is undefined
safe_free(h, p) ==
    IF p = NullPtr THEN h
    ELSE IF p.off = 0 /\ p.base \in h.live
    THEN [h EXCEPT !.live = @ \ {p.base}]
    ELSE [h EXCEPT !.ub = TRUE]

\* malloc(n), new char[n], allocate(n): a block at a fresh address
safe_malloc(h, base) == [h EXCEPT !.live = @ \cup {base}]

\* realloc(p, n): the block is grown in place or moved to a fresh address
safe_realloc(h, base, moved) ==
    IF moved THEN [h EXCEPT !.live = (@ \ {base}) \cup {base + 1}] ELSE h

Returned(h) == [done |-> TRUE, thrown |-> FALSE, heap |-> h]
Raised(h) == [done |-> TRUE, thrown |-> TRUE, heap |-> h]

\* hex_impl: buffer = new char[width]; the loop of base16_encode; delete[]
hex_impl(h, s) ==
    IF s.second = "throw"
    THEN Raised(safe_free(h, NullPtr))
    ELSE LET buffer == [base |-> 2, off |-> 0]
             h1 == safe_malloc(h, buffer.base)
         IN  IF s.third = "throw"
             THEN Raised(safe_free(h1, buffer))
             ELSE Returned(safe_free(h1, buffer))

\* string hex(str, width): dst = new char[dstlen + 1]; hex(...); delete[] dst
hex(s) ==
    IF s.first = "throw"
    THEN Raised(safe_free(EmptyHeap, NullPtr))
    ELSE LET dst_ == [base |-> 1, off |-> 0]
             r == hex_impl(safe_malloc(EmptyHeap, dst_.base), s)
         IN  IF r.thrown
             THEN Raised(safe_free(r.heap, dst_))
             ELSE Returned(safe_free(r.heap, dst_))

\* punycode_conversion: u32 = alloc.allocate(u32_size); cb1; cb2; deallocate
punycode_conversion(s) ==
    IF s.first = "throw"
    THEN \* u32 is null, nothing to deallocate
         Raised(EmptyHeap)
    ELSE LET u32 == [base |-> 1, off |-> 0]
             h1 == safe_malloc(EmptyHeap, u32.base)
         IN  IF s.second = "throw" \/ s.third = "throw"
             THEN Raised(safe_free(h1, u32))
             ELSE Returned(safe_free(h1, u32))

\* catch (...) { safe_free(dst); throw; }
ctx_catch(h, dst_) == safe_free(h, dst_)

\* the loop of ctx_decompress from its i-th turn on, and what follows it:
\* buffer is the base of the scratch buffer, dst_ the output pointer, whose
\* offset is dst_pos
RECURSIVE ctx_decompress(_, _, _, _, _)
ctx_decompress(s, i, h, buffer, dst_) ==
    IF i > Len(s) THEN [done |-> FALSE, thrown |-> FALSE, heap |-> h]
    ELSE IF s[i].realloc = "bad_alloc"
    THEN \* safe_realloc raises, buffer and dst are those of the last turn
         Raised(ctx_catch(h, dst_))
    ELSE LET moved == s[i].realloc = "moved"
             h1 == safe_realloc(h, buffer, moved)
             b1 == IF moved THEN buffer + 1 ELSE buffer
             d0 == [base |-> b1, off |-> dst_.off]
             d1 == [base |-> b1, off |-> dst_.off + s[i].produced]
         IN  IF s[i].status = "throw"
             THEN \* ctx.decompress raises, dst is as passed
                  Raised(ctx_catch(h1, d0))
             ELSE IF s[i].status = "eof"
             THEN IF s[i].flush = "throw"
                  THEN \* ctx.flush raises
                       Raised(ctx_catch(h1, d1))
                  ELSE \* string output(buffer, out); safe_free(buffer)
                       Returned(safe_free(h1, [base |-> b1, off |-> 0]))
             ELSE ctx_decompress(s, i + 1, h1, b1, d1)

\* string hex(str, width)
HexCall ==
    /\ ~x_ret.done /\ x_call.fn = "hex"
    /\ x_ret' = hex(x_call.script)
    /\ UNCHANGED x_call

\* utf8_to_punycode and the others made of punycode_conversion
PunycodeCall ==
    /\ ~x_ret.done /\ x_call.fn = "punycode"
    /\ x_ret' = punycode_conversion(x_call.script)
    /\ UNCHANGED x_call

\* the one-shot decompression helpers made of ctx_decompress; after an
\* invalid free the block is gone or not
DecompressCall ==
    /\ ~x_ret.done /\ x_call.fn = "decompress"
    /\ LET r == ctx_decompress(x_call.script, 1,
                               safe_malloc(EmptyHeap, 1), 1,
                               [base |-> 1, off |-> 0])
       IN  IF r.heap.ub
           THEN \E live \in SUBSET r.heap.live :
                   x_ret' = [r EXCEPT !.heap.live = live]
           ELSE x_ret' = r
    /\ UNCHANGED x_call

\* ------------------------------------------------------------------------
\* makedirs (filesystem/iterator.h, POSIX).  A path is a sequence of
\* characters; a directory is known by whether its path is absolute and by
\* its components; m_fs is the set of the directories that exist besides
\* the root and the working directory.
\* ------------------------------------------------------------------------
path_separators == {"/"}

\* the components of a path, empty ones dropped
RECURSIVE Components(_, _, _)
Components(path, i, word) ==
    IF i > Len(path)
    THEN IF word = <<>> THEN <<>> ELSE <<word>>
    ELSE IF path[i] \in path_separators
    THEN (IF word = <<>> THEN <<>> ELSE <<word>>) \o Components(path, i + 1, <<>>)
    ELSE Components(path, i + 1, Append(word, path[i]))

Resolve(path) ==
    [abs |-> path # <<>> /\ path[1] \in path_separators,
     comps |-> Components(path, 1, <<>>)]

\* exists(path): stat(2) finds the path; the empty path gives ENOENT
path_exists(f, path) ==
    /\ path # <<>>
    /\ Resolve(path).comps = <<>> \/ Resolve(path) \in f

\* ::mkdir(path, mode) == 0: the path is new and its parent exists
posix_mkdir(f, path) ==
    LET d == Resolve(path)
        parent == [d EXCEPT !.comps = SubSeq(@, 1, Len(@) - 1)]
    IN  IF /\ path # <<>>
           /\ ~path_exists(f, path)
           /\ parent.comps = <<>> \/ parent \in f
        THEN [fs |-> f \cup {d}, ret |-> TRUE]
        ELSE [fs |-> f, ret |-> FALSE]

\* stem_impl: the offset after the last separator, 0 if there is none
stem_impl(path) ==
    LET seps == {i \in DOMAIN path : path[i] \in path_separators}
    IN  IF seps = {} THEN 0 ELSE CHOOSE i \in seps : \A j \in seps : j <= i

dir_name_impl(path) ==
    LET dir == SubSeq(path, 1, stem_impl(path))
    IN  IF Len(dir) > 1 /\ dir[Len(dir)] \in path_separators
        THEN SubSeq(dir, 1, Len(dir) - 1)
        ELSE dir

\* makedirs(path, mode) is entered by the call on top of the stack:
\* if (!exists(path)) makedirs(dir_name(path), mode); else return false.
\* A call that finds the stack full ends the process
MakedirsEnter ==
    /\ m_stack # <<>>
    /\ m_stack[Len(m_stack)].pc = "enter"
    /\ LET top == m_stack[Len(m_stack)] IN
       IF path_exists(m_fs, top.path)
       THEN /\ m_stack' = SubSeq(m_stack, 1, Len(m_stack) - 1)
            /\ m_ret' = "false"
       ELSE IF Len(m_stack) = MaxFrames
       THEN /\ m_stack' = <<>>
            /\ m_ret' = "stack overflow"
       ELSE /\ m_stack' = Append([m_stack EXCEPT ![Len(m_stack)].pc = "mkdir"],
                                 [path |-> dir_name_impl(top.path), pc |-> "enter"])
            /\ m_ret' = "none"
    /\ UNCHANGED m_fs

\* the inner call has returned: return mkdir(path, mode)
MakedirsMkdir ==
    /\ m_stack # <<>>
    /\ m_stack[Len(m_stack)].pc = "mkdir"
    /\ LET r == posix_mkdir(m_fs, m_stack[Len(m_stack)].path) IN
       /\ m_fs' = r.fs
       /\ m_ret' = IF r.ret THEN "true" ELSE "false"
    /\ m_stack' = SubSeq(m_stack, 1, Len(m_stack) - 1)

\* ------------------------------------------------------------------------
\* the weighted variance with a given mean (math/std.h).  The values, the
\* weights and the mean are small integers, which a double holds exactly;
\* the quotient the function returns is kept as its numerator and its
\* denominator.
\* ------------------------------------------------------------------------
RECURSIVE weighted_sum(_, _, _, _)
\* the loop over i in [0, dist): sum += w * pow(value - mean, 2)
weighted_sum(mean, values, weights, i) ==
    IF i = 0 THEN 0
    ELSE weighted_sum(mean, values, weights, i - 1)
         + weights[i] * (values[i] - mean) * (values[i] - mean)

RECURSIVE weight_sum(_, _)
\* the same loop: weight += w
weight_sum(weights, i) ==
    IF i = 0 THEN 0 ELSE weight_sum(weights, i - 1) + weights[i]

\* variance(mean, value_first, value_last, weight_first, weight_last):
\* dist and dist - 1 are size_t, dist / (dist-1) is their integer quotient;
\* for dist = 1 the division by zero is undefined
variance(mean, values, weights) ==
    LET dist == IF Len(values) < Len(weights) THEN Len(values) ELSE Len(weights)
        less == (dist - 1) % Word
    IN  IF less = 0
        THEN [ub |-> TRUE, num |-> 0, den |-> 0]
        ELSE [ub |-> FALSE,
              num |-> weighted_sum(mean, values, weights, dist),
              den |-> weight_sum(weights, dist) * (dist \div less)]

Variance ==
    /\ ~v_ret.done
    /\ LET r == variance(v_mean, v_values, v_weights) IN
       v_ret' = [done |-> TRUE, ub |-> r.ub, num |-> r.num, den |-> r.den]
    /\ UNCHANGED <<v_mean, v_values, v_weights>>

\* ------------------------------------------------------------------------
\* the specifications: the subsystems a specification leaves out are at
\* rest and stay so
\* ------------------------------------------------------------------------
IdleLRU ==
    /\ list_ = <<>>
    /\ map_ = EmptyMap
    /\ cache_size_ = 0
    /\ lru_ub = FALSE
    /\ lru_log = LogOff

IdleArena ==
    /\ ptr_ = buf_
    /\ blocks = <<>>
    /\ retired = NoneRetired
    /\ arena_log = ArenaOff
    /\ use_fallback = TRUE
    /\ ndebug = TRUE
    /\ aborted = FALSE

IdleThreads ==
    /\ use_locks = FALSE
    /\ mutex_ = 0
    /\ t_pc = <<>>
    /\ t_n = <<>>
    /\ t_p = <<>>
    /\ t_r = <<>>

IdleStream ==
    /\ s_kind = "mmap"
    /\ s_fd = <<>>
    /\ s_data = <<>>
    /\ s_alive = <<>>
    /\ os_fds = <<>>
    /\ os_maps = <<>>

IdleFilter ==
    /\ stream = <<>>
    /\ status = "ok"
    /\ src = nullptr
    /\ dst = nullptr
    /\ code = "none"
    /\ codec = <<>>

IdleFs ==
    /\ fs = <<>>
    /\ fs_call = <<>>

IdleCount ==
    /\ c_d1 = 0
    /\ c_d2 = 0
    /\ c_ret = <<>>

IdleEnum ==
    /\ e_a = <<>>
    /\ e_mid = 0
    /\ e_stop = 0
    /\ e_out = <<>>

IdleSha ==
    /\ sha_seed = 0
    /\ ctx = <<>>
    /\ digest = <<>>

IdlePuny ==
    /\ p_src = <<>>
    /\ p_bits = 0
    /\ p_enc = <<>>
    /\ p_dec = <<>>

IdleFind ==
    /\ f_str = <<>>
    /\ f_sub = <<>>
    /\ f_start = 0
    /\ f_end = 0
    /\ f_ret = <<>>

IdleSplit ==
    /\ s_str = <<>>
    /\ s_arg = [kind |-> "none"]
    /\ s_ret = [op |-> "none", list |-> <<>>, out |-> <<>>]

IdleJson ==
    /\ j_heap = <<>>
    /\ levels = <<>>
    /\ has_key_ = FALSE
    /\ key_ = ""
    /\ j_open = <<>>
    /\ j_phase = "off"
    /\ j_event = "none"
    /\ j_ub = FALSE
    /\ j_thrown = FALSE

IdleScratch ==
    /\ x_call = [fn |-> "none"]
    /\ x_ret = [done |-> FALSE]

IdleMakedirs ==
    /\ m_fs = {}
    /\ m_stack = <<>>
    /\ m_ret = "none"

IdleVariance ==
    /\ v_mean = 0
    /\ v_values = <<>>
    /\ v_weights = <<>>
    /\ v_ret = [done |-> FALSE]

\* the subsystems other than those of the set on are at rest
Idle(on) ==
    /\ IF "lru" \in on THEN TRUE ELSE IdleLRU
    /\ IF "arena" \in on THEN TRUE ELSE IdleArena
    /\ IF "threads" \in on THEN TRUE ELSE IdleThreads
    /\ IF "stream" \in on THEN TRUE ELSE IdleStream
    /\ IF "filter" \in on THEN TRUE ELSE IdleFilter
    /\ IF "fs" \in on THEN TRUE ELSE IdleFs
    /\ IF "count" \in on THEN TRUE ELSE IdleCount
    /\ IF "enum" \in on THEN TRUE ELSE IdleEnum
    /\ IF "sha" \in on THEN TRUE ELSE IdleSha
    /\ IF "puny" \in on THEN TRUE ELSE IdlePuny
    /\ IF "find" \in on THEN TRUE ELSE IdleFind
    /\ IF "split" \in on THEN TRUE ELSE IdleSplit
    /\ IF "json" \in on THEN TRUE ELSE IdleJson
    /\ IF "scratch" \in on THEN TRUE ELSE IdleScratch
    /\ IF "makedirs" \in on THEN TRUE ELSE IdleMakedirs
    /\ IF "variance" \in on THEN TRUE ELSE IdleVariance

\* the subsystems other than those of the set on do not move
Frame(on) ==
    /\ IF "lru" \in on THEN TRUE ELSE UNCHANGED lruVars
    /\ IF "arena" \in on THEN TRUE ELSE UNCHANGED arenaVars
    /\ IF "threads" \in on THEN TRUE ELSE UNCHANGED threadVars
    /\ IF "stream" \in on THEN TRUE ELSE UNCHANGED streamVars
    /\ IF "filter" \in on THEN TRUE ELSE UNCHANGED filterVars
    /\ IF "fs" \in on THEN TRUE ELSE UNCHANGED fsVars
    /\ IF "count" \in on THEN TRUE ELSE UNCHANGED countVars
    /\ IF "enum" \in on THEN TRUE ELSE UNCHANGED enumVars
    /\ IF "sha" \in on THEN TRUE ELSE UNCHANGED shaVars
    /\ IF "puny" \in on THEN TRUE ELSE UNCHANGED punyVars
    /\ IF "find" \in on THEN TRUE ELSE UNCHANGED findVars
    /\ IF "split" \in on THEN TRUE ELSE UNCHANGED splitVars
    /\ IF "json" \in on THEN TRUE ELSE UNCHANGED jsonVars
    /\ IF "scratch" \in on THEN TRUE ELSE UNCHANGED scratchVars
    /\ IF "makedirs" \in on THEN TRUE ELSE UNCHANGED makedirsVars
    /\ IF "variance" \in on THEN TRUE ELSE UNCHANGED varianceVars

\* lru_cache(int cache_size)
InitLRU ==
    /\ list_ = <<>>
    /\ map_ = EmptyMap
    /\ cache_size_ \in 0..MaxCap
    /\ lru_ub = FALSE
    /\ lru_log = <<>>
    /\ Idle({"lru"})

NextLRUOps ==
    \/ \E k \in Keys : Index(k) /\ Frame({"lru"})
    \/ \E k \in Keys : At(k) /\ Frame({"lru"})
    \/ \E k \in Keys : Find(k) /\ Frame({"lru"})
    \/ \E k \in Keys : Insert(k) /\ Frame({"lru"})
    \/ \E k \in Keys : EraseKey(k) /\ Frame({"lru"})
    \/ \E i \in 1..MaxList, n \in 1..MaxList : EraseRange(i, n) /\ Frame({"lru"})
    \/ Clear /\ Frame({"lru"})

NextLRU ==
    \/ \E k \in Keys : Index(k) /\ Frame({"lru"})
    \/ \E k \in Keys : At(k) /\ Frame({"lru"})
    \/ \E k \in Keys : Find(k) /\ Frame({"lru"})
    \/ \E k \in Keys : Insert(k) /\ Frame({"lru"})
    \/ \E k \in Keys : EraseKey(k) /\ Frame({"lru"})
    \/ \E i \in 1..MaxList, n \in 1..MaxList : EraseRange(i, n) /\ Frame({"lru"})
    \/ Clear /\ Frame({"lru"})
    \/ \E rhs \in Rhs : Swap(rhs) /\ Frame({"lru"})
    \/ \E rhs \in Rhs : CopyConstruct(rhs) /\ Frame({"lru"})
    \/ \E rhs \in Rhs : CopyAssign(rhs) /\ Frame({"lru"})
    \/ \E rhs \in Rhs : MoveConstruct(rhs) /\ Frame({"lru"})
    \/ MovedFrom /\ Frame({"lru"})

\* stack_allocator_arena(fallback): ptr_ = buf_
InitArena ==
    /\ ptr_ = buf_
    /\ blocks = <<>>
    /\ retired = NoneRetired
    /\ arena_log = <<>>
    /\ use_fallback \in BOOLEAN
    /\ ndebug \in BOOLEAN
    /\ aborted = FALSE
    /\ Idle({"arena"})

NextArena ==
    \/ \E n \in Sizes : Allocate(n) /\ Frame({"arena"})
    \/ \E i \in 1..MaxBlocks : Deallocate(i) /\ Frame({"arena"})
    \/ Reset /\ Frame({"arena"})

\* an arena, and allocators of one of the two variants that refer to it
InitThreads ==
    /\ use_locks \in BOOLEAN
    /\ mutex_ = 0
    /\ t_pc = [t \in Threads |-> "idle"]
    /\ t_n = [t \in Threads |-> 0]
    /\ t_p = [t \in Threads |-> 0]
    /\ t_r = [t \in Threads |-> 0]
    /\ ptr_ = buf_
    /\ blocks = <<>>
    /\ retired = NoneRetired
    /\ arena_log = ArenaOff
    /\ use_fallback = arena_type(FALSE, use_locks).use_fallback
    /\ ndebug \in BOOLEAN
    /\ aborted = FALSE
    /\ Idle({"arena", "threads"})

\* what no step of a thread changes
FrameThreads ==
    /\ UNCHANGED <<retired, arena_log, use_fallback, ndebug, use_locks>>
    /\ Frame({"arena", "threads"})

NextThreads ==
    \/ \E t \in Threads, n \in ThreadSizes : T_Allocate(t, n) /\ FrameThreads
    \/ \E t \in Threads : T_AllocAssert(t) /\ FrameThreads
    \/ \E t \in Threads : T_AllocLock(t) /\ FrameThreads
    \/ \E t \in Threads : T_AllocTest(t) /\ FrameThreads
    \/ \E t \in Threads : T_AllocRead(t) /\ FrameThreads
    \/ \E t \in Threads : T_AllocBump(t) /\ FrameThreads
    \/ \E t \in Threads : T_AllocReturn(t) /\ FrameThreads
    \/ \E t \in Threads : T_AllocFallback(t) /\ FrameThreads
    \/ \E t \in Threads, i \in 1..(MaxHeld + 1) : T_Deallocate(t, i) /\ FrameThreads
    \/ \E t \in Threads : T_FreeLock(t) /\ FrameThreads
    \/ \E t \in Threads : T_FreeTest(t) /\ FrameThreads
    \/ \E t \in Threads : T_FreeWrite(t) /\ FrameThreads
    \/ \E t \in Threads : T_FreeReturn(t) /\ FrameThreads

\* two default-constructed wrappers of one class
InitStream ==
    /\ s_kind \in StreamKinds
    /\ s_fd = [o \in Wrappers |-> INVALID_FD_VALUE]
    /\ s_data = [o \in Wrappers |-> nullptr]
    /\ s_alive = [o \in Wrappers |-> TRUE]
    /\ os_fds = <<>>
    /\ os_maps = <<>>
    /\ Idle({"stream"})

NextStream ==
    \/ \E o \in Wrappers, ok \in BOOLEAN : S_Open(o, ok) /\ Frame({"stream"})
    \/ \E o \in Wrappers : S_Close(o) /\ Frame({"stream"})
    \/ \E o \in Wrappers, ok \in BOOLEAN : S_Map(o, ok) /\ Frame({"stream"})
    \/ \E o \in Wrappers : S_Unmap(o) /\ Frame({"stream"})
    \/ S_Swap /\ Frame({"stream"})
    \/ \E o \in Wrappers : S_Destroy(o) /\ Frame({"stream"})

\* filter_impl(): the stream is zeroed; status is the derived context's
InitFilter ==
    /\ stream = [next_in |-> nullptr, avail_in |-> 0,
                 next_out |-> nullptr, avail_out |-> 0]
    /\ status \in CodecStatus
    /\ code = "none"
    /\ src = nullptr
    /\ dst = nullptr
    /\ codec = [src |-> nullptr, dst |-> nullptr, consumed |-> 0, produced |-> 0]
    /\ Idle({"filter"})

\* the caller passes a pointer into its source buffer with at most the
\* bytes that follow it, and the same for the destination or nullptr
NextFilter ==
    \/ \E s \in SrcPtrs, d \in DstPtrs \cup {nullptr} :
         \E sl \in 0..(1 + SrcLen - s), dl \in 0..DstLen :
           /\ d # nullptr => dl <= 2 + SrcLen + DstLen - d
           /\ \E c \in 0..SrcLen, p \in 0..DstLen, ns \in CodecStatus :
                Filter(s, sl, d, dl, c, p, ns)
           /\ Frame({"filter"})
    \/ \E s \in SrcPtrs, d \in DstPtrs :
         \E sl \in 0..(1 + SrcLen - s), dl \in 0..(2 + SrcLen + DstLen - d) :
           FilterThrow(s, sl, d, dl) /\ Frame({"filter"})

\* any file system of NPaths paths
InitFs ==
    /\ fs \in [Paths -> Entries]
    /\ fs_call = [op |-> "none", valid |-> FALSE, src |-> 1, source |-> Missing,
                  dst |-> 1, replace |-> FALSE, before |-> Missing,
                  ret |-> "true"]
    /\ Idle({"fs"})

NextFs ==
    \/ \E s \in Paths, replace \in BOOLEAN : \E d \in Paths \ {s} :
         MoveFile(s, d, replace) /\ Frame({"fs"})
    \/ \E s \in Paths, replace \in BOOLEAN : \E d \in Paths \ {s} :
         MoveDir(s, d, replace) /\ Frame({"fs"})
    \/ \E s \in Paths, replace \in BOOLEAN : \E d \in Paths \ {s} :
         CopyFile(s, d, replace) /\ Frame({"fs"})
    \/ \E s \in Paths, replace \in BOOLEAN : \E d \in Paths \ {s} :
         \E recursive \in BOOLEAN : CopyDir(s, d, recursive, replace) /\ Frame({"fs"})
    \/ \E s \in Paths, replace \in BOOLEAN : \E d \in Paths \ {s} :
         MkLink(s, d, replace) /\ Frame({"fs"})

\* any pair of UInt values, before a counting function is called
InitCount ==
    /\ c_d1 \in 0..UIntMax
    /\ c_d2 \in 0..UIntMax
    /\ c_ret = [fn |-> "none", thrown |-> FALSE, value |-> 0]
    /\ Idle({"count"})

NextCount ==
    \/ CountCombination /\ Frame({"count"})
    \/ CountPermutation /\ Frame({"count"})
    \/ CountCircular /\ Frame({"count"})
    \/ CountReversible /\ Frame({"count"})
    \/ CountReversibleCircular /\ Frame({"count"})

\* a range of at most MaxN distinct elements, cut at any mid, and a
\* function that returns true at none or at one of its first MaxStop calls
InitEnum ==
    /\ \E n \in 0..MaxN : e_a = [i \in 1..n |-> i]
    /\ e_mid \in 1..(Len(e_a) + 1)
    /\ e_stop \in 0..MaxStop
    /\ e_out = [fn |-> "none", a |-> e_a, calls |-> 0, ret |-> FALSE]
    /\ Idle({"enum"})

NextEnum ==
    \/ ForEachCombination /\ Frame({"enum"})
    \/ ForEachPermutation /\ Frame({"enum"})
    \/ ForEachCircularPermutation /\ Frame({"enum"})

\* a hash object after sha256_init, and the message it is going to be fed
InitSha ==
    /\ sha_seed \in 0..MaxSeed
    /\ ctx = sha256_init
    /\ digest = [done |-> FALSE, hash |-> <<>>]
    /\ Idle({"sha"})

NextSha ==
    \/ \E len \in 0..MaxMsg, addr \in 0..3 : Sha256Update(len, addr) /\ Frame({"sha"})
    \/ Sha256Digest /\ Frame({"sha"})

\* the code points of the strings that are encoded: '-', 'a', the two
\* smallest that are not ASCII, the largest code point and the largest uint32_t
CodePoints == {45, 97, 128, 129, INT32_MAX, SIZE_MAX(UInt32Bits)}

\* any string of at most MaxCps of them, on either build
InitPuny ==
    /\ \E len \in 0..MaxCps : p_src \in [1..len -> CodePoints]
    /\ p_bits \in {UInt32Bits, 2 * UInt32Bits}
    /\ p_enc = [done |-> FALSE, status |-> "ok", out |-> <<>>, wrapped |-> FALSE]
    /\ p_dec = [done |-> FALSE, status |-> "ok", out |-> <<>>]
    /\ Idle({"puny"})

NextPuny ==
    \/ PunyEncode /\ Frame({"puny"})
    \/ PunyDecode /\ Frame({"puny"})

\* a string of at most MaxStr characters, a substring of 1 to MaxSub, and
\* any start and end up to one past the longest string, or end = SIZE_MAX
InitFind ==
    /\ \E n \in 0..MaxStr : f_str \in [1..n -> 1..NChars]
    /\ \E n \in 1..MaxSub : f_sub \in [1..n -> 1..NChars]
    /\ f_start \in 0..(MaxStr + 1)
    /\ f_end \in 0..(MaxStr + 1) \cup {SizeMax}
    /\ f_ret = [op |-> "none", thrown |-> FALSE, value |-> 0]
    /\ Idle({"find"})

NextFind ==
    \/ StrFind /\ Frame({"find"})
    \/ StrRfind /\ Frame({"find"})
    \/ StrIndex /\ Frame({"find"})
    \/ StrRindex /\ Frame({"find"})

\* the separators of split: every single character, and one set of two
Seps == {<<c>> : c \in Letters} \cup {<<",", "a">>}

\* the punctuation policies: three distinct characters
Puncts ==
    {[kind |-> "punct", delimiter |-> d, quote |-> q, escape |-> e] :
        <<d, q, e>> \in {t \in Letters \X Letters \X Letters :
                            t[1] # t[2] /\ t[1] # t[3] /\ t[2] # t[3]}}

\* a string of at most MaxLine characters, and either a separator with a
\* split limit (SIZE_MAX is the default) or a punctuation policy
InitSplit ==
    /\ \E n \in 0..MaxLine : s_str \in [1..n -> Letters]
    /\ s_arg \in {[kind |-> "sep", sep |-> p, maxsplit |-> m] :
                     p \in Seps, m \in {0, 1, SizeMax}} \cup Puncts
    /\ s_ret = [op |-> "none", list |-> <<>>, out |-> <<>>]
    /\ Idle({"split"})

NextSplit ==
    \/ StrSplitJoin /\ Frame({"split"})
    \/ StrQuotedSplit /\ Frame({"split"})
    \/ CsvReadRow /\ Frame({"split"})

\* a handler made on an empty document, before the reader runs
InitJson ==
    /\ j_heap = <<json_value_t("null")>>
    /\ levels = <<>>
    /\ has_key_ = FALSE
    /\ key_ = ""
    /\ j_open = <<>>
    /\ j_phase = "new"
    /\ j_event = "none"
    /\ j_ub = FALSE
    /\ j_thrown = FALSE
    /\ Idle({"json"})

NextJson ==
    \/ StartDocument /\ Frame({"json"})
    \/ EndDocument /\ Frame({"json"})
    \/ StartObject /\ Frame({"json"})
    \/ StartArray /\ Frame({"json"})
    \/ EndObject /\ Frame({"json"})
    \/ EndArray /\ Frame({"json"})
    \/ \E k \in JsonKeys : Key(k) /\ Frame({"json"})
    \/ \E t \in JsonScalars : Scalar(t) /\ Frame({"json"})

\* what the three steps of hex and of punycode_conversion do
Outcomes ==
    [first : {"ok", "throw"}, second : {"ok", "throw"}, third : {"ok", "throw"}]

\* a turn of the loop of ctx_decompress: what safe_realloc does, the
\* status of ctx.decompress (or a raise), the bytes it wrote and, at the
\* end of the stream, what ctx.flush does
Turns ==
    {t \in [realloc : {"same", "moved", "bad_alloc"},
            status : {"ok", "eof", "throw"}, produced : 0..1,
            flush : {"ok", "throw"}] :
        (t.realloc = "bad_alloc" \/ t.status # "eof") => t.flush = "ok"}
Ends(t) == t.realloc = "bad_alloc" \/ t.status # "ok"

\* the runs of ctx_decompress of at most MaxTurns turns, the last one
\* reaching the end of the stream or raising
Runs ==
    UNION {{s \in [1..n -> Turns] :
               /\ Ends(s[n])
               /\ \A i \in 1..(n - 1) : ~Ends(s[i])} : n \in 1..MaxTurns}

InitScratch ==
    /\ x_call \in [fn : {"hex", "punycode"}, script : Outcomes]
                  \cup [fn : {"decompress"}, script : Runs]
    /\ x_ret = [done |-> FALSE, thrown |-> FALSE, heap |-> EmptyHeap]
    /\ Idle({"scratch"})

NextScratch ==
    \/ HexCall /\ Frame({"scratch"})
    \/ PunycodeCall /\ Frame({"scratch"})
    \/ DecompressCall /\ Frame({"scratch"})

\* the directories a, a/a, /a and /a/a, a child only with its parent
Dirs ==
    {f \in SUBSET ([abs : BOOLEAN, comps : {<<<<"a">>>>, <<<<"a">>, <<"a">>>>}]) :
        \A d \in f : Len(d.comps) = 2 =>
            [abs |-> d.abs, comps |-> <<<<"a">>>>] \in f}

\* makedirs is called with a path of at most MaxPath characters
InitMakedirs ==
    /\ m_fs \in Dirs
    /\ \E n \in 0..MaxPath : \E p \in [1..n -> {"/", "a"}] :
          m_stack = <<[path |-> p, pc |-> "enter"]>>
    /\ m_ret = "none"
    /\ Idle({"makedirs"})

NextMakedirs ==
    \/ MakedirsEnter /\ Frame({"makedirs"})
    \/ MakedirsMkdir /\ Frame({"makedirs"})

\* at most MaxSamples values of 0..MaxValue, as many weights or fewer or
\* more, of 1..MaxWeight, and a mean
InitVariance ==
    /\ \E n \in 0..MaxSamples : v_values \in [1..n -> 0..MaxValue]
    /\ \E n \in 0..MaxSamples : v_weights \in [1..n -> 1..MaxWeight]
    /\ v_mean \in 0..MaxValue
    /\ v_ret = [done |-> FALSE, ub |-> FALSE, num |-> 0, den |-> 0]
    /\ Idle({"variance"})

NextVariance ==
    \/ Variance /\ Frame({"variance"})

SpecLRU == InitLRU /\ [][NextLRU]_vars

SpecLRUOps == InitLRU /\ [][NextLRUOps]_vars

SpecArena == InitArena /\ [][NextArena]_vars

SpecArenaMT == InitThreads /\ [][NextThreads]_vars

SpecStream == InitStream /\ [][NextStream]_vars

SpecFilter == InitFilter /\ [][NextFilter]_vars

SpecFs == InitFs /\ [][NextFs]_vars

SpecCount == InitCount /\ [][NextCount]_vars

SpecEnum == InitEnum /\ [][NextEnum]_vars

SpecSha == InitSha /\ [][NextSha]_vars

SpecPuny == InitPuny /\ [][NextPuny]_vars

SpecFind == InitFind /\ [][NextFind]_vars

SpecSplit == InitSplit /\ [][NextSplit]_vars

SpecJson == InitJson /\ [][NextJson]_vars

SpecScratch == InitScratch /\ [][NextScratch]_vars

SpecMakedirs == InitMakedirs /\ [][NextMakedirs]_vars

SpecVariance == InitVariance /\ [][NextVariance]_vars

\* ------------------------------------------------------------------------
\* lru_cache: properties
\* ------------------------------------------------------------------------
\* count(key)
Present(k) == map_[k] # NoEntry

\* C1: size() is at most the capacity, and every key of the index has
\* exactly one list node, which is the node its index entry refers to
C1_IndexConsistent ==
    /\ size(map_) <= cache_size_
    /\ \A k \in Keys :
          Present(k) =>
             /\ Cardinality({i \in 1..Len(list_) : list_[i].key = k}) = 1
             /\ Valid(map_[k])
             /\ list_[PosOf(list_, map_[k])].key = k

\* C2 as stated, for every capacity k: after the k+1 inserts K1 is absent
\* and K2..K(k+1) are present; after the lookup of K2 and one more insert
\* K2 is still present, and K3 (when there is one) is absent
C2_AnyCapacity ==
    ~IsOff(lru_log) =>
       /\ Len(lru_log) = cache_size_ + 1 =>
             /\ ~Present(lru_log[1].k)
             /\ \A i \in 2..Len(lru_log) : Present(lru_log[i].k)
       /\ Len(lru_log) = cache_size_ + 3 =>
             /\ Present(lru_log[2].k)
             /\ cache_size_ >= 2 => ~Present(lru_log[3].k)

\* C2, amended: the same for a capacity k >= 2, where the lookup of K2 and
\* one more insert evict K3 and keep K2, K4..K(k+1) and the new key
C2_Eviction ==
    ~IsOff(lru_log) =>
       /\ Len(lru_log) = cache_size_ + 1 =>
             /\ ~Present(lru_log[1].k)
             /\ \A i \in 2..Len(lru_log) : Present(lru_log[i].k)
       /\ (Len(lru_log) = cache_size_ + 3 /\ cache_size_ >= 2) =>
             /\ ~Present(lru_log[1].k)
             /\ ~Present(lru_log[3].k)
             /\ \A i \in 1..Len(lru_log) : i \notin {1, 3} => Present(lru_log[i].k)

\* the whole scenario has run on a cache of capacity 2 or more
C2_Witness ==
    /\ ~IsOff(lru_log)
    /\ cache_size_ >= 2
    /\ Len(lru_log) = cache_size_ + 3

\* C3: operator[], at, find and insert leave the entry of their key at the
\* front of the list (in a cache that can hold an entry; at and find of a
\* key that is present)
C3_TouchedAtFront ==
    [][\A k \in Keys :
          (/\ cache_size_ >= 1
           /\ \/ Index(k)
              \/ Insert(k)
              \/ Present(k) /\ (At(k) \/ Find(k)))
          => (list_' # <<>> /\ list_'[1].key = k)]_vars

\* ------------------------------------------------------------------------
\* stack_allocator_arena: properties
\* ------------------------------------------------------------------------
\* C4: the bump pointer is within [buf_, buf_ + stack_size]
C4_PtrInBuffer ==
    buf_ <= ptr_ /\ ptr_ <= buf_ + StackSize

\* two units are taken and a block below the last one has been freed
C4_Witness ==
    /\ ptr_ = buf_ + 2 * Alignment
    /\ retired.all # {}
    /\ Len(blocks) >= 1

\* C5 as stated: c is given the address b had
C5_AnySize ==
    (arena_log # ArenaOff /\ Len(arena_log) = 4) =>
       arena_log[4].p = arena_log[2].p

\* C5, amended: c is given the address b had when b was served from the
\* buffer
C5_SameAddress ==
    (arena_log # ArenaOff /\ Len(arena_log) = 4 /\ pointer_in_buffer(arena_log[2].p)) =>
       arena_log[4].p = arena_log[2].p

\* a, b and c have been served from the buffer, each taking space
C5_Witness ==
    /\ arena_log # ArenaOff
    /\ Len(arena_log) = 4
    /\ \A i \in {1, 2, 4} :
          pointer_in_buffer(arena_log[i].p) /\ align_up(arena_log[i].n) > 0

\* no live block of the buffer holds a byte of the set
NoReuse(bytes) ==
    \A j \in 1..Len(blocks) :
       InArena(blocks[j]) => Bytes(blocks[j].p, blocks[j].n) \cap bytes = {}

\* C6 as stated: freeing a block of the buffer that is not the most
\* recently allocated one leaves ptr_ as it is, and no byte of such a block
\* is handed out again before reset()
C6_NotMostRecent ==
    [][/\ \A i \in 1..MaxBlocks :
             (i <= Len(blocks) /\ InArena(blocks[i]) /\ NotTop(i) /\ Deallocate(i))
                => ptr_' = ptr_
       /\ NoReuse(retired.all)']_vars

\* C6, amended: the same for a block that is not the most recently
\* allocated of the live blocks that take space in the buffer
C6_NonLIFO ==
    [][/\ \A i \in 1..MaxBlocks :
             (i <= Len(blocks) /\ InArena(blocks[i]) /\ NotTopNZ(i) /\ Deallocate(i))
                => ptr_' = ptr_
       /\ NoReuse(retired.nz)']_vars

\* a block was freed ahead of its turn and the buffer has served another
\* block since
C6_Witness ==
    /\ retired.nz # {}
    /\ retired.later
    /\ \E j \in 1..Len(blocks) : InArena(blocks[j]) /\ align_up(blocks[j].n) > 0

\* C7: the blocks of the buffer that threads have received through locked
\* allocators do not overlap
C7_LockedNoOverlap ==
    use_locks =>
       \A i \in 1..Len(blocks) : \A j \in 1..Len(blocks) :
          (i < j /\ InArena(blocks[i]) /\ InArena(blocks[j])) =>
             Bytes(blocks[i].p, blocks[i].n) \cap Bytes(blocks[j].p, blocks[j].n) = {}

\* ------------------------------------------------------------------------
\* stream wrappers: properties
\* ------------------------------------------------------------------------
\* C8: no descriptor and no mapping is released twice, and once both
\* wrappers are destroyed every descriptor opened has been closed and
\* every mapping created has been unmapped, each exactly once
C8_ReleasedOnce ==
    /\ \A i \in 1..Len(os_fds) : os_fds[i] <= 1
    /\ \A j \in 1..Len(os_maps) : os_maps[j] <= 1
    /\ (\A o \in Wrappers : ~s_alive[o]) =>
          /\ \A i \in 1..Len(os_fds) : os_fds[i] = 1
          /\ \A j \in 1..Len(os_maps) : os_maps[j] = 1

\* ------------------------------------------------------------------------
\* compression filter: properties
\* ------------------------------------------------------------------------
\* C9: a call that returns gives one of the four status codes, and leaves
\* the caller's src and dst advanced by the bytes the codec consumed and
\* produced during the call
C9_StatusAndAdvance ==
    code \notin {"none", "raised"} =>
        /\ code \in {"compression_ok", "compression_need_input",
                     "compression_need_output", "compression_eof"}
        /\ src = codec.src + codec.consumed
        /\ dst = codec.dst + codec.produced

\* a call on a stream that still holds input of the call before, in which
\* the codec produces output
C9_Witness ==
    /\ code = "compression_ok"
    /\ codec.produced > 0
    /\ codec.consumed = 0
    /\ src # nullptr

\* ------------------------------------------------------------------------
\* file manipulation: properties
\* ------------------------------------------------------------------------
\* C10: a call of move_file, move_dir, copy_file, copy_dir or mklink on a
\* source of its kind, with replace = false and a destination that exists,
\* throws filesystem_destination_exists and leaves the destination as it was
C10_NoReplaceRaises ==
    (fs_call.valid /\ exists(fs_call.before) /\ ~fs_call.replace) =>
        /\ fs_call.ret = "filesystem_destination_exists"
        /\ fs[fs_call.dst] = fs_call.before

\* C11: a move_file or move_dir of a source of its kind to another device,
\* onto a destination that is absent or to be replaced, is carried out as
\* copy and delete: the call returns true, the destination holds what the
\* source held and the source path no longer exists
C11_CrossDeviceMove ==
    (/\ fs_call.op \in {"move_file", "move_dir"}
     /\ fs_call.valid
     /\ st_dev(fs_call.src) # st_dev(fs_call.dst)
     /\ (fs_call.replace \/ ~exists(fs_call.before))) =>
        /\ fs_call.ret = "true"
        /\ fs[fs_call.dst] = fs_call.source
        /\ fs[fs_call.src] = Missing

\* ------------------------------------------------------------------------
\* sampling.h, counting functions: properties
\* ------------------------------------------------------------------------
\* the numbers above UIntMax are told apart from those that fit, not from
\* one another: every exact count is cut off at TooMany
TooMany == UIntMax + 1

Cut(x) == IF x > UIntMax THEN TooMany ELSE x

\* C(n, j) by C(n, j) = C(n - 1, j - 1) * n / j, which never decreases
RECURSIVE ChooseUp(_, _)
ChooseUp(n, j) ==
    IF j = 0
    THEN 1
    ELSE LET c == ChooseUp(n - 1, j - 1)
         IN  IF c > UIntMax THEN TooMany ELSE Cut((c * n) \div j)

\* C(n, k) = C(n, n - k)
Choose(n, k) == ChooseUp(n, IF k < n - k THEN k ELSE n - k)

\* a product is followed exactly up to Huge, which is more than UIntMax
\* times any divisor of the closed forms
Huge == 2 * UIntMax * TooMany

\* n! / lo!
RECURSIVE Falling(_, _)
Falling(n, lo) ==
    IF n <= lo
    THEN 1
    ELSE LET f == Falling(n - 1, lo)
         IN  IF f * n > Huge THEN Huge ELSE f * n

\* x / d for a product x followed up to Huge
Quot(x, d) == IF x >= Huge THEN TooMany ELSE Cut(x \div d)

\* the closed forms of the five counts
Exact(fn, d1, d2) ==
    CASE fn = "combination" -> Choose(d1 + d2, d1)
      [] fn = "permutation" -> Quot(Falling(d1 + d2, d2), 1)
      [] fn = "circular" ->
            IF d1 > 0 THEN Quot(Falling(d1 + d2, d2), d1) ELSE 1
      [] fn = "reversible" ->
            IF d1 > 1 THEN Quot(Falling(d1 + d2, d2), 2)
                      ELSE Quot(Falling(d1 + d2, d2), 1)
      [] fn = "reversible_circular" ->
            IF d1 = 0 THEN 1
            ELSE IF d1 <= 2 THEN Quot(Falling(d1 + d2, d2), d1)
                 ELSE Quot(Falling(d1 + d2, d2), 2 * d1)

\* C12: a counting function called on a pair whose exact count exceeds the
\* largest UInt raises overflow_error; it does not return a wrapped value
C12_OverflowRaises ==
    (c_ret.fn # "none" /\ Exact(c_ret.fn, c_d1, c_d2) > UIntMax) => c_ret.thrown

\* an overflow that only the multiplication loop can see was raised
C12_Witness ==
    /\ c_ret.fn = "reversible_circular"
    /\ c_d1 > 3
    /\ c_d1 + c_d2 <= UIntMax
    /\ Choose(c_d1 + c_d2, c_d1) <= UIntMax
    /\ Exact(c_ret.fn, c_d1, c_d2) > UIntMax
    /\ c_ret.thrown

\* C13: a counting function called on a pair whose exact count fits returns
\* its closed form and does not raise
C13_ClosedForm ==
    (c_ret.fn # "none" /\ Exact(c_ret.fn, c_d1, c_d2) <= UIntMax) =>
        /\ ~c_ret.thrown
        /\ c_ret.value = Exact(c_ret.fn, c_d1, c_d2)

\* a circular count by the branch for d1 > d2 that is neither 1 nor d1 + d2
C13_Witness ==
    /\ c_ret.fn = "circular"
    /\ c_d1 > c_d2
    /\ c_d2 > 0
    /\ ~c_ret.thrown
    /\ c_ret.value = Exact("circular", c_d1, c_d2)
    /\ c_ret.value > c_d1 + c_d2

\* ------------------------------------------------------------------------
\* sampling.h, enumerations: properties
\* ------------------------------------------------------------------------
\* count_each_*(r, N - r) for the enumeration fn
CountFor(fn, d1, d2) ==
    CASE fn = "combination" -> count_each_combination(d1, d2)
      [] fn = "permutation" -> count_each_permutation(d1, d2)
      [] fn = "circular" -> count_each_circular_permutation(d1, d2)

\* C14: an enumeration of r out of N elements whose function always returns
\* false calls it count_each_*(r, N - r) times, and more than UIntMax times
\* where that count does not fit the UInt
C14_CallsEqualCount ==
    (e_out.fn # "none" /\ e_stop = 0) =>
        LET c == CountFor(e_out.fn, e_mid - 1, Len(e_a) + 1 - e_mid)
        IN  IF c.thrown THEN e_out.calls > UIntMax ELSE e_out.calls = c.value

\* the circular permutations of 4 out of 5 elements were counted
C14_Witness ==
    /\ e_out.fn = "circular"
    /\ e_stop = 0
    /\ Len(e_a) = 5
    /\ e_mid = 5
    /\ e_out.calls = 30

\* C15: an enumeration whose function never returned true leaves the
\* elements in their original order
C15_OrderRestored ==
    (e_out.fn # "none" /\ ~e_out.ret) => e_out.a = e_a

\* the permutations of all of 5 elements ran to completion
C15_Witness ==
    /\ e_out.fn = "permutation"
    /\ ~e_out.ret
    /\ Len(e_a) = 5
    /\ e_mid = 6
    /\ e_out.calls > 100
    /\ e_out.a = e_a

\* ------------------------------------------------------------------------
\* sha256.cc: properties
\* ------------------------------------------------------------------------
\* the digest of the first n bytes of the message given in one update
OneUpdate(seed, n) == sha256_final(sha256_update(sha256_init, Chunk(seed, 0, n), 0))

\* C16: the digest taken after the message was fed in any number of chunks
\* is the digest of the same bytes fed in a single update
C16_ChunkedEqualsWhole ==
    digest.done => digest.hash = OneUpdate(sha_seed, ctx.length)

\* a digest of more than one block whose padding took a block of its own,
\* after updates that left other bytes in ctx.message than a single update
C16_Witness ==
    /\ digest.done
    /\ ctx.length > SHA256_BLOCK_SIZE
    /\ ctx.length % SHA256_BLOCK_SIZE >= 56
    /\ Len(digest.hash) = 3
    /\ ctx.message # sha256_update(sha256_init, Chunk(sha_seed, 0, ctx.length), 0).message

\* ------------------------------------------------------------------------
\* punycode.cc: properties
\* ------------------------------------------------------------------------
IsAscii(c) == c < 128

\* a string of code points, some of them ASCII and some not
Mixed(seq) ==
    /\ \E j \in 1..Len(seq) : IsAscii(seq[j])
    /\ \E j \in 1..Len(seq) : ~IsAscii(seq[j])
    /\ \A j \in 1..Len(seq) : seq[j] <= INT32_MAX

\* C17: a string that mixes ASCII and other code points is encoded without
\* an error, and the encoded string is decoded, without an error, to the
\* code points that were encoded
C17_RoundTrip ==
    Mixed(p_src) =>
        /\ p_enc.done => p_enc.status = "ok"
        /\ p_dec.done => (p_dec.status = "ok" /\ p_dec.out = p_src)

\* C18: the encoding of a string of ASCII code points is the string itself
C18_AsciiUnchanged ==
    (p_enc.done /\ \A j \in 1..Len(p_src) : IsAscii(p_src[j])) =>
        (p_enc.status = "ok" /\ p_enc.out = p_src)

\* C19: delta never leaves the range of its type unnoticed: the encoder
\* raises overflow_error instead, as the decoder does for its index
C19_NoWrap ==
    /\ ~p_enc.wrapped
    /\ p_dec.status # "undefined"

\* ------------------------------------------------------------------------
\* find, rfind, index, rindex: properties
\* ------------------------------------------------------------------------
\* sub occurs in str between start and end
Occurs(str, sub, start, end) ==
    \E i \in start..(Len(str) - Len(sub)) :
        /\ i + Len(sub) <= end
        /\ SubSeq(str, i + 1, i + Len(sub)) = sub

\* C20: where sub does not occur between start and end, find and rfind
\* return SIZE_MAX and index and rindex raise out_of_range
C20_NotFound ==
    (f_ret.op # "none" /\ ~Occurs(f_str, f_sub, f_start, f_end)) =>
        IF f_ret.op \in {"find", "rfind"}
        THEN ~f_ret.thrown /\ f_ret.value = SizeMax
        ELSE f_ret.thrown

\* ------------------------------------------------------------------------
\* split, join and the quoted split

\* str neither starts nor ends with the character c
NotAtEnds(str, c) == str = <<>> \/ (str[1] # c /\ str[Len(str)] # c)

\* C21: for a string with no occurrence of the single-character separator
\* at its very start or very end, join(split(s, sep), sep) equals s
C21_SplitJoinInverse ==
    (/\ s_ret.op = "split"
     /\ Len(s_arg.sep) = 1
     /\ s_arg.maxsplit = SizeMax
     /\ NotAtEnds(s_str, s_arg.sep[1])) => s_ret.out = s_str

\* a string with two adjacent separators inside was split in three, the
\* middle field empty, and joined back
C21_Witness ==
    /\ s_ret.op = "split"
    /\ Len(s_arg.sep) = 1
    /\ s_arg.maxsplit = SizeMax
    /\ NotAtEnds(s_str, s_arg.sep[1])
    /\ Len(s_ret.list) = 3
    /\ s_ret.list[2] = <<>>
    /\ s_ret.out = s_str

\* the character at position i follows an odd run of escape characters
Escaped(str, p, i) ==
    Cardinality({k \in 1..(i - 1) :
                    \A m \in 1..k : str[i - m] = p.escape}) % 2 = 1

\* position i holds a quote character that opens or closes a quotation
QuoteMark(str, p, i) ==
    str[i] = p.quote /\ ~Escaped(str, p, i)

InQuotes(str, p, i) ==
    Cardinality({j \in 1..(i - 1) : QuoteMark(str, p, j)}) % 2 = 1

\* position i holds a delimiter outside quotes that is not escaped
Splits(str, p, i) ==
    str[i] = p.delimiter /\ ~Escaped(str, p, i) /\ ~InQuotes(str, p, i)

\* position i is copied to the field
Emitted(str, p, i) ==
    \/ Escaped(str, p, i)
    \/ str[i] \notin {p.escape, p.quote} /\ ~Splits(str, p, i)

\* the emitted characters of field k, in order, from position i on
RECURSIVE Field(_, _, _, _)
Field(str, p, k, i) ==
    IF i > Len(str) THEN <<>>
    ELSE IF /\ Emitted(str, p, i)
            /\ Cardinality({j \in 1..(i - 1) : Splits(str, p, j)}) = k - 1
         THEN <<str[i]>> \o Field(str, p, k, i + 1)
         ELSE Field(str, p, k, i + 1)

\* C28: a delimiter ends the field only outside quotes and unescaped, a
\* quote toggles the in-quote state and is not emitted, the character after
\* an escape is emitted literally; the line yields one more field than it
\* has unquoted, unescaped delimiters
C28_QuotedFields ==
    s_ret.op \in {"quoted_split", "csv"} =>
        /\ Len(s_ret.list) =
              1 + Cardinality({i \in DOMAIN s_str : Splits(s_str, s_arg, i)})
        /\ \A k \in DOMAIN s_ret.list :
              s_ret.list[k] = Field(s_str, s_arg, k, 1)

\* a CSV line with a quoted delimiter, an escaped quote and a delimiter
\* that splits was parsed
C28_Witness ==
    /\ s_ret.op = "csv"
    /\ \E i, j, k \in DOMAIN s_str :
          /\ s_str[i] = s_arg.delimiter /\ InQuotes(s_str, s_arg, i)
             /\ ~Escaped(s_str, s_arg, i)
          /\ s_str[j] = s_arg.delimiter /\ Escaped(s_str, s_arg, j)
          /\ Splits(s_str, s_arg, k)

\* C29: whenever find, rfind, index or rindex report a match, the returned
\* position i is an offset from the beginning of str with start <= i, and
\* the characters of str at i .. i+len(sub)-1 equal sub
C29_MatchPosition ==
    (f_ret.op # "none" /\ ~f_ret.thrown /\ f_ret.value # SizeMax) =>
        /\ f_start <= f_ret.value
        /\ f_ret.value + Len(f_sub) <= Len(f_str)
        /\ SubSeq(f_str, f_ret.value + 1, f_ret.value + Len(f_sub)) = f_sub

\* ------------------------------------------------------------------------
\* the arena: the live blocks
\* ------------------------------------------------------------------------
\* the n bytes of block b lie inside the buffer
InsideBuffer(b) == buf_ <= b.p /\ b.p + b.n <= buf_ + StackSize

\* blocks a and b have no byte in common
Disjoint(a, b) ==
    a.n = 0 \/ b.n = 0 \/ a.p + a.n <= b.p \/ b.p + b.n <= a.p

\* C25: after any sequence of allocate and deallocate calls in which each
\* block is freed at most once and with the size it was allocated with, the
\* live blocks served from the buffer are pairwise non-overlapping and lie
\* entirely inside the buffer
C25_LiveBlocksDisjoint ==
    /\ \A i \in 1..Len(blocks) :
          InArena(blocks[i]) => InsideBuffer(blocks[i])
    /\ \A i, j \in 1..Len(blocks) :
          (i < j /\ InArena(blocks[i]) /\ InArena(blocks[j])) =>
              Disjoint(blocks[i], blocks[j])

\* ------------------------------------------------------------------------
\* the JSON DOM builder
\* ------------------------------------------------------------------------
\* the value on top of the level stack after the step
TopAfter == j_heap'[levels'[Len(levels')]]

\* C23: every start_object/start_array pushes the newly attached container
\* onto the level stack, whether it was attached by key, appended to an
\* array or swapped in as the root, every end_object/end_array pops exactly
\* one level, and the top of the stack is the innermost open container
C23_PushOnStart ==
    [][/\ j_event' \in {"start_object", "start_array"} =>
            /\ Len(levels') = Len(levels) + 1
            /\ TopAfter = json_value_t(IF j_event' = "start_object"
                                       THEN "object" ELSE "array")
       /\ j_event' \in {"end_object", "end_array"} =>
            /\ levels # <<>>
            /\ levels' = SubSeq(levels, 1, Len(levels) - 1)
       /\ j_open' # <<>> =>
            /\ levels' # <<>>
            /\ TopAfter.type = j_open'[Len(j_open')].type
            /\ Len(TopAfter.kids) = j_open'[Len(j_open')].count]_vars

\* C24: for every well-formed event sequence the level stack is non-empty
\* whenever its top is read or a level is popped, and it is empty after
\* end_document
C24_StackNeverUnderflows ==
    /\ ~j_ub
    /\ j_phase = "done" => levels = <<>>

\* ------------------------------------------------------------------------
\* the scratch buffers
\* ------------------------------------------------------------------------
\* C22: in every helper that allocates a scratch buffer and then calls a
\* lower-level converter, if the converter raises, the scratch buffer is
\* freed before the error propagates, so no buffer is leaked
C22_FreedOnError ==
    (x_ret.done /\ x_ret.thrown) =>
        x_ret.heap.live = {} /\ ~x_ret.heap.ub

\* ------------------------------------------------------------------------
\* copy_file
\* ------------------------------------------------------------------------
\* C27: copy_file(src, dst) with src an existing regular file, the parent
\* directory of dst existing and dst not existing returns true and leaves
\* dst existing with byte content equal to that of src
C27_CopyCreatesDst ==
    (/\ fs_call.op = "copy_file"
     /\ fs_call.source.kind = "file"
     /\ ~exists(fs_call.before)) =>
        /\ fs_call.ret = "true"
        /\ fs[fs_call.dst] = fs_call.source

\* ------------------------------------------------------------------------
\* makedirs
\* ------------------------------------------------------------------------
\* C26: makedirs(path) terminates for every path, absolute or relative,
\* whatever number of its leading components are missing.  The calls go
\* down without changing the file system, so the call terminates exactly
\* when no call is entered with the path of a call that is still active
C26_MakedirsTerminates ==
    /\ m_ret # "stack overflow"
    /\ \A i, j \in DOMAIN m_stack : i < j => m_stack[i].path # m_stack[j].path

\* ------------------------------------------------------------------------
\* the weighted variance
\* ------------------------------------------------------------------------
\* C30: the weighted variance of n values x with weights w and a given mean
\* equals (sum of w*(x-mean)^2) / ((sum of w) * (n/(n-1))), n/(n-1) being
\* the real quotient: num/den = S*(n-1) / (W*n), compared by cross products
C30_WeightedVariance ==
    LET n == IF Len(v_values) < Len(v_weights)
             THEN Len(v_values) ELSE Len(v_weights)
        S == weighted_sum(v_mean, v_values, v_weights, n)
        W == weight_sum(v_weights, n)
    IN  (v_ret.done /\ n >= 2) =>
            /\ ~v_ret.ub
            /\ v_ret.den # 0
            /\ v_ret.num * (W * n) = S * (n - 1) * v_ret.den

====
